---- MODULE Spec2Model ----
(***************************************************************************)
(* Verification model of the ironclaw agent core: the declarative hook     *)
(* bundles of src/hooks/bundled.rs run through the hook registry, the      *)
(* turn-based agent loop driven by the submissions of                      *)
(* src/agent/submission.rs, the MCP client of src/tools/mcp and the        *)
(* workspace of src/workspace.                                             *)
(*                                                                         *)
(* Strings that the code inspects (event content, regex patterns,          *)
(* replacements, prepend/append text) are sequences of one-character       *)
(* strings.  Option<T> is a sequence of length 0 (None) or 1 (Some).       *)
(* Regular expressions are literal patterns: a pattern matches a content   *)
(* when it occurs in it as a contiguous subsequence.                       *)
(***************************************************************************)
EXTENDS Integers, Sequences, FiniteSets, TLC

VARIABLES
    registry,      \* HookRegistry: hook point -> list of entries, priority ascending
    nextSeq,       \* number of registrations performed so far (registration order)
    summary,       \* HookRegistrationSummary accumulated over the registrations
    run,           \* the chain run of HookRegistry::run in progress or last finished
    webhookTasks,  \* detached outbound webhook deliveries not yet finished
    loopState,     \* agent loop: Idle, Reasoning, AwaitingApproval or Responding
    messages,      \* the thread's message list, up to the latest checkpoint boundary
    turn,          \* the current (or latest) turn with the messages it owns
    nextTurnId,    \* turn identifiers handed out so far
    undoStack,     \* completed turns, oldest first
    redoStack,     \* undone turns, each with the message list its Undo replaced
    queue,         \* UserInput submissions waiting for the loop to be Idle
    pending,       \* the ApprovalRequest awaiting an ExecApproval, if any
    nextRequestId, \* approval request identifiers handed out so far
    alwaysApproved,\* the session's always-approved tool names
    batch,         \* the tool calls of the latest model response and their progress
    inflight,      \* LLM requests and tool executions started and not yet returned
    rounds,        \* model responses carrying tool calls so far
    executions,    \* the calls of a tool's execute so far
    approvedIds,   \* request ids of the ExecApproval{approved: true} processed
    expiredIds,    \* ids of the approval requests that expired unresolved
    latest,        \* what the submission processed in the latest step found
    peerAlwaysApproved, \* the always-approved tool names of another session's loop
    tools_cache,   \* McpClient.tools_cache: the cached tool list, if any
    next_id,       \* McpClient.next_id: the next JSON-RPC request id
    server_tools,  \* the tool list the MCP server would answer tools/list with now
    list_calls,    \* the list_tools calls whose tools/list request is under way
    wrappers,      \* the McpToolWrapper list built by the latest create_tools
    decision,      \* the latest requires_approval answer of a wrapped MCP tool
    settled,       \* the list of the first successful list_tools since clear_cache
    cleared,       \* clear_cache has been called and no list_tools has started since
    lastReturn,    \* what the list_tools call that returned latest did
    documents,     \* the workspace's documents: content by document, None while missing
    chunks,        \* the stored MemoryChunk rows of each document, in insertion order
    writes,        \* the workspace writes under way, each at one of its repository calls
    nextWrite,     \* workspace writes started so far
    held,          \* the contents each document has held so far
    returned,      \* the writes that have returned, each with its Result
    promptDocs,    \* the documents system_prompt reads: content by document, None while missing
    prompt,        \* the latest system_prompt result, until a document is written again
    search,        \* the memory_search call whose output has not been taken yet
    planned,       \* the model response parse_plan was given last, with its result
    classified,    \* the submissions received so far, each with how it was classified
    executed,      \* the rule hook execution whose outcome has not been taken yet
    registration,  \* the register_bundle call whose summary has not been taken yet
    overlay,       \* the approval overlay on screen, with what its calls returned last
    composed       \* the ChatComposer call whose result has not been looked at yet

hookVars == <<registry, nextSeq, summary, run, webhookTasks>>

agentVars ==
    <<loopState, messages, turn, nextTurnId, undoStack, redoStack, queue, pending,
      nextRequestId, alwaysApproved, batch, inflight, rounds, executions, approvedIds,
      expiredIds, latest, peerAlwaysApproved>>

mcpVars ==
    <<tools_cache, next_id, server_tools, list_calls, wrappers, decision, settled,
      cleared, lastReturn>>

wsVars == <<documents, chunks, writes, nextWrite, held, returned>>

\* the state of the workspace's read operations and of the parsing helpers
pureVars ==
    <<promptDocs, prompt, search, planned, classified, executed, registration, overlay,
      composed>>

promptVars == <<promptDocs, prompt>>

searchVars == <<search>>

parseVars == <<planned>>

submissionVars == <<classified>>

ruleVars == <<executed>>

bundleVars == <<registration>>

overlayVars == <<overlay>>

composerVars == <<composed>>

\* the state of the terminal channel's widgets
cliVars == <<overlayVars, composerVars>>

\* the state of everything but the terminal channel's widgets
nonCliVars ==
    <<hookVars, agentVars, mcpVars, wsVars, promptVars, searchVars, parseVars, submissionVars,
      ruleVars, bundleVars>>

coreVars == <<hookVars, agentVars, mcpVars, wsVars>>

vars == <<hookVars, agentVars, mcpVars, wsVars, pureVars>>

----------------------------------------------------------------------------
(* Bounds of the model *)

\* hooks registered besides the built-in audit hook
MaxHooks == 2
\* outbound webhook deliveries in flight at once
MaxDeliveries == 1
\* UserInputs submitted plus model responses that carry tool calls
MaxWork == 3
\* JSON-RPC requests one MCP client sends.
MaxRequests == 2
\* Workspace writes (append_memory, append_daily_log, update_document) started.
MaxWrites == 2
\* the characters of a line typed into the composer
MaxTyped == 2
\* the entries of a history the composer is given, the full histories aside
MaxEntries == 2
\* the history_prev presses, and then history_next presses, of one navigation
MaxPresses == 3
\* the largest limit a memory_search call asks for
MaxLimit == 2
\* the longest model response parse_plan is given, in tokens
MaxResponse == 6
\* the number of submissions whose classification is followed
MaxClassified == 2
\* the most replacements a rule hook under execution lists
MaxReplacements == 2

----------------------------------------------------------------------------
(* Option and string helpers *)

None == <<>>
Some(x) == <<x>>
IsSome(o) == Len(o) = 1
Unwrap(o) == o[1]

\* Regex::is_match for a literal pattern: the pattern occurs somewhere in s
IsMatch(p, s) ==
    \E i \in 1..(Len(s) + 1) :
        /\ i + Len(p) - 1 <= Len(s)
        /\ SubSeq(s, i, i + Len(p) - 1) = p

\* Regex::replace_all for a non-empty literal pattern: leftmost,
\* non-overlapping matches are each replaced
RECURSIVE ReplaceAll(_, _, _)
ReplaceAll(s, p, r) ==
    IF Len(s) < Len(p) \/ Len(p) = 0 THEN s
    ELSE IF SubSeq(s, 1, Len(p)) = p
         THEN r \o ReplaceAll(SubSeq(s, Len(p) + 1, Len(s)), p, r)
         ELSE <<Head(s)>> \o ReplaceAll(Tail(s), p, r)

\* Regex::new fails on a pattern that does not compile; "(" stands for those
RegexCompiles(p) == p # <<"(">>

----------------------------------------------------------------------------
(* Constants of src/hooks/bundled.rs *)

DEFAULT_RULE_PRIORITY == 100
DEFAULT_WEBHOOK_PRIORITY == 300
DEFAULT_WEBHOOK_TIMEOUT_MS == 2000
MAX_HOOK_TIMEOUT_MS == 30000
AUDIT_PRIORITY == 25
DEFAULT_TIMEOUT_MS == 5000

ALL_HOOK_POINTS ==
    {"beforeInbound", "beforeToolCall", "beforeOutbound",
     "onSessionStart", "onSessionEnd", "transformResponse"}

----------------------------------------------------------------------------
(* Declarative hook configurations (HookRuleConfig, OutboundWebhookConfig) *)

RuleConfig(name, points, priority, failure_mode, timeout_ms, when_regex, reject_reason, replacements, prepend, append) ==
    [name |-> name, points |-> points, priority |-> priority,
     failure_mode |-> failure_mode, timeout_ms |-> timeout_ms,
     when_regex |-> when_regex, reject_reason |-> reject_reason,
     replacements |-> replacements, prepend |-> prepend, append |-> append]

Replacement(pattern, replacement) ==
    [pattern |-> pattern, replacement |-> replacement]

\* The valid rule configurations a bundle may carry.  "redact" and "block"
\* are the rules of test_rule_hook_modifies_content and
\* test_rule_hook_rejects with one-character patterns.
RuleConfigs ==
    { RuleConfig("redact", {"beforeInbound", "beforeOutbound"}, None, None, None,
                 None, None, <<Replacement(<<"a">>, <<"b">>)>>, None, None),
      RuleConfig("restore", {"beforeInbound"}, Some(100), Some("FailClosed"), Some(1),
                 None, None, <<Replacement(<<"b">>, <<"a">>)>>, None, None),
      RuleConfig("block", {"beforeInbound"}, Some(25), None, Some(30000),
                 Some(<<"x">>), Some("forbidden content"), <<>>, None, None),
      RuleConfig("wrap", {"beforeInbound", "beforeToolCall"}, Some(300), Some("FailOpen"), None,
                 Some(<<"a">>), None, <<>>, Some(<<"x">>), Some(<<"b">>)) }

\* Rule configurations from_config refuses
InvalidRuleConfigs ==
    { RuleConfig("nopoints", {}, None, None, None,
                 None, None, <<>>, None, Some(<<"b">>)),
      RuleConfig("badregex", {"beforeInbound"}, None, None, None,
                 Some(<<"(">>), None, <<>>, None, None),
      RuleConfig("badpattern", {"beforeOutbound"}, None, None, None,
                 None, None, <<Replacement(<<"(">>, <<"b">>)>>, None, None),
      RuleConfig("notimeout", {"beforeInbound"}, None, None, Some(0),
                 None, None, <<>>, None, None),
      RuleConfig("slow", {"beforeInbound"}, None, None, Some(30001),
                 None, None, <<>>, Some(<<"x">>), None) }

WebhookConfig(name, points, url, timeout_ms, priority) ==
    [name |-> name, points |-> points, url |-> url,
     timeout_ms |-> timeout_ms, priority |-> priority]

\* reqwest::Url::parse accepts absolute URLs only; "relative" stands for a
\* string it rejects
UrlParses(url) == url = "http://127.0.0.1:9/hook"

WebhookConfigs ==
    { WebhookConfig("notify", {"beforeInbound"}, "http://127.0.0.1:9/hook", Some(1000), None) }

InvalidWebhookConfigs ==
    { WebhookConfig("badurl", {"beforeInbound"}, "relative", None, None),
      WebhookConfig("nowhere", {}, "http://127.0.0.1:9/hook", None, None),
      WebhookConfig("slowpost", {"beforeOutbound"}, "http://127.0.0.1:9/hook",
                    Some(30001), None) }

----------------------------------------------------------------------------
(* Hooks: the bundled implementations of the Hook trait *)

Hook(kind, name, points, failure_mode, timeout, when_regex, reject_reason, replacements, prepend, append) ==
    [kind |-> kind, name |-> name, points |-> points,
     failure_mode |-> failure_mode, timeout |-> timeout,
     when_regex |-> when_regex, reject_reason |-> reject_reason,
     replacements |-> replacements, prepend |-> prepend, append |-> append]

ScopedName(source, name) == <<source, name>>

Ok(hook, priority) == [ok |-> TRUE, hook |-> hook, priority |-> priority, err |-> "none"]
Err(kind) == [ok |-> FALSE, hook |-> None, priority |-> 0, err |-> kind]

\* mutant of timeout_from_ms: only the upper limit is tested
timeout_from_ms_ZeroAccepted(timeout_ms) ==
    IF IsSome(timeout_ms)
    THEN IF Unwrap(timeout_ms) > MAX_HOOK_TIMEOUT_MS
         THEN None
         ELSE Some(Unwrap(timeout_ms))
    ELSE Some(DEFAULT_TIMEOUT_MS)

\* timeout_from_ms: Ok(milliseconds) or InvalidTimeout
timeout_from_ms(timeout_ms) ==
    IF IsSome(timeout_ms)
    THEN IF Unwrap(timeout_ms) = 0 \/ Unwrap(timeout_ms) > MAX_HOOK_TIMEOUT_MS
         THEN None
         ELSE Some(Unwrap(timeout_ms))
    ELSE Some(DEFAULT_TIMEOUT_MS)

\* unwrap_or
UnwrapOr(o, d) == IF IsSome(o) THEN Unwrap(o) ELSE d

AuditLogHook ==
    Hook("audit", ScopedName("builtin", "audit_log"), ALL_HOOK_POINTS,
         "FailOpen", DEFAULT_TIMEOUT_MS, None, None, <<>>, None, None)

\* from_config with the webhook default priority taken for rules
RuleHookFromConfig_WebhookPriority(source, config) ==
    IF config.points = {} THEN Err("MissingHookPoints")
    ELSE IF ~IsSome(timeout_from_ms(config.timeout_ms)) THEN Err("InvalidTimeout")
    ELSE IF IsSome(config.when_regex) /\ ~RegexCompiles(Unwrap(config.when_regex))
         THEN Err("InvalidRegex")
    ELSE IF \E i \in 1..Len(config.replacements) :
                ~RegexCompiles(config.replacements[i].pattern)
         THEN Err("InvalidRegex")
    ELSE Ok(Hook("rule", ScopedName(source, config.name), config.points,
                 UnwrapOr(config.failure_mode, "FailOpen"),
                 Unwrap(timeout_from_ms(config.timeout_ms)),
                 config.when_regex, config.reject_reason, config.replacements,
                 config.prepend, config.append),
            UnwrapOr(config.priority, DEFAULT_WEBHOOK_PRIORITY))

\* from_config with FailClosed taken when the config names no failure mode
RuleHookFromConfig_DefaultClosed(source, config) ==
    IF config.points = {} THEN Err("MissingHookPoints")
    ELSE IF ~IsSome(timeout_from_ms(config.timeout_ms)) THEN Err("InvalidTimeout")
    ELSE IF IsSome(config.when_regex) /\ ~RegexCompiles(Unwrap(config.when_regex))
         THEN Err("InvalidRegex")
    ELSE IF \E i \in 1..Len(config.replacements) :
                ~RegexCompiles(config.replacements[i].pattern)
         THEN Err("InvalidRegex")
    ELSE Ok(Hook("rule", ScopedName(source, config.name), config.points,
                 UnwrapOr(config.failure_mode, "FailClosed"),
                 Unwrap(timeout_from_ms(config.timeout_ms)),
                 config.when_regex, config.reject_reason, config.replacements,
                 config.prepend, config.append),
            UnwrapOr(config.priority, DEFAULT_RULE_PRIORITY))

\* RuleHook::from_config
RuleHookFromConfig(source, config) ==
    IF config.points = {} THEN Err("MissingHookPoints")
    ELSE IF ~IsSome(timeout_from_ms(config.timeout_ms)) THEN Err("InvalidTimeout")
    ELSE IF IsSome(config.when_regex) /\ ~RegexCompiles(Unwrap(config.when_regex))
         THEN Err("InvalidRegex")
    ELSE IF \E i \in 1..Len(config.replacements) :
                ~RegexCompiles(config.replacements[i].pattern)
         THEN Err("InvalidRegex")
    ELSE Ok(Hook("rule", ScopedName(source, config.name), config.points,
                 UnwrapOr(config.failure_mode, "FailOpen"),
                 Unwrap(timeout_from_ms(config.timeout_ms)),
                 config.when_regex, config.reject_reason, config.replacements,
                 config.prepend, config.append),
            UnwrapOr(config.priority, DEFAULT_RULE_PRIORITY))

\* OutboundWebhookHook::from_config (the trait's default failure mode applies)
WebhookHookFromConfig(source, config) ==
    IF config.points = {} THEN Err("MissingHookPoints")
    ELSE IF ~UrlParses(config.url) THEN Err("InvalidWebhookUrl")
    ELSE IF ~IsSome(timeout_from_ms(
                IF IsSome(config.timeout_ms) THEN config.timeout_ms
                ELSE Some(DEFAULT_WEBHOOK_TIMEOUT_MS)))
         THEN Err("InvalidTimeout")
    ELSE Ok(Hook("webhook", ScopedName(source, config.name), config.points,
                 "FailOpen",
                 Unwrap(timeout_from_ms(
                     IF IsSome(config.timeout_ms) THEN config.timeout_ms
                     ELSE Some(DEFAULT_WEBHOOK_TIMEOUT_MS))),
                 None, None, <<>>, None, None),
            UnwrapOr(config.priority, DEFAULT_WEBHOOK_PRIORITY))

----------------------------------------------------------------------------
(* Hook outcomes and RuleHook::execute *)

Continue(modified) == [kind |-> "Continue", modified |-> modified, reason |-> ""]
Reject(reason) == [kind |-> "Reject", modified |-> None, reason |-> reason]
\* an execute error, or the timeout winning the race against execute
Failure(how) == [kind |-> how, modified |-> None, reason |-> ""]

\* mutant of ApplyReplacements: the last listed replacement is applied first
RECURSIVE ApplyReplacements_LastFirst(_, _, _)
ApplyReplacements_LastFirst(replacements, i, s) ==
    IF i > Len(replacements) THEN s
    ELSE ReplaceAll(ApplyReplacements_LastFirst(replacements, i + 1, s),
                    replacements[i].pattern, replacements[i].replacement)

\* the replacements applied in listed order, starting with the i-th
RECURSIVE ApplyReplacements(_, _, _)
ApplyReplacements(replacements, i, s) ==
    IF i > Len(replacements) THEN s
    ELSE ApplyReplacements(replacements, i + 1,
            ReplaceAll(s, replacements[i].pattern, replacements[i].replacement))

\* execute without the comparison of the result with the content
RuleHookExecute_AlwaysModify(hook, content) ==
    IF IsSome(hook.when_regex) /\ ~IsMatch(Unwrap(hook.when_regex), content)
    THEN Continue(None)
    ELSE IF IsSome(hook.reject_reason)
    THEN Reject(Unwrap(hook.reject_reason))
    ELSE LET replaced == ApplyReplacements(hook.replacements, 1, content)
             prefixed == IF IsSome(hook.prepend)
                         THEN Unwrap(hook.prepend) \o replaced ELSE replaced
             modified == IF IsSome(hook.append)
                         THEN prefixed \o Unwrap(hook.append) ELSE prefixed
         IN  Continue(Some(modified))

\* execute with the guard test inverted
RuleHookExecute_GuardInverted(hook, content) ==
    IF IsSome(hook.when_regex) /\ IsMatch(Unwrap(hook.when_regex), content)
    THEN Continue(None)
    ELSE IF IsSome(hook.reject_reason)
    THEN Reject(Unwrap(hook.reject_reason))
    ELSE LET replaced == ApplyReplacements(hook.replacements, 1, content)
             prefixed == IF IsSome(hook.prepend)
                         THEN Unwrap(hook.prepend) \o replaced ELSE replaced
             modified == IF IsSome(hook.append)
                         THEN prefixed \o Unwrap(hook.append) ELSE prefixed
         IN  IF modified # content THEN Continue(Some(modified))
             ELSE Continue(None)

\* execute with the reject reason looked at before the guard
RuleHookExecute_RejectUnguarded(hook, content) ==
    IF IsSome(hook.reject_reason)
    THEN Reject(Unwrap(hook.reject_reason))
    ELSE IF IsSome(hook.when_regex) /\ ~IsMatch(Unwrap(hook.when_regex), content)
    THEN Continue(None)
    ELSE LET replaced == ApplyReplacements(hook.replacements, 1, content)
             prefixed == IF IsSome(hook.prepend)
                         THEN Unwrap(hook.prepend) \o replaced ELSE replaced
             modified == IF IsSome(hook.append)
                         THEN prefixed \o Unwrap(hook.append) ELSE prefixed
         IN  IF modified # content THEN Continue(Some(modified))
             ELSE Continue(None)

\* execute with the reject reason looked at after the rewrite
RuleHookExecute_RewriteFirst(hook, content) ==
    IF IsSome(hook.when_regex) /\ ~IsMatch(Unwrap(hook.when_regex), content)
    THEN Continue(None)
    ELSE LET replaced == ApplyReplacements(hook.replacements, 1, content)
             prefixed == IF IsSome(hook.prepend)
                         THEN Unwrap(hook.prepend) \o replaced ELSE replaced
             modified == IF IsSome(hook.append)
                         THEN prefixed \o Unwrap(hook.append) ELSE prefixed
         IN  IF modified # content THEN Continue(Some(modified))
             ELSE IF IsSome(hook.reject_reason)
             THEN Reject(Unwrap(hook.reject_reason))
             ELSE Continue(None)

\* RuleHook::execute on the event's primary content
RuleHookExecute(hook, content) ==
    IF IsSome(hook.when_regex) /\ ~IsMatch(Unwrap(hook.when_regex), content)
    THEN Continue(None)
    ELSE IF IsSome(hook.reject_reason)
    THEN Reject(Unwrap(hook.reject_reason))
    ELSE LET replaced == ApplyReplacements(hook.replacements, 1, content)
             prefixed == IF IsSome(hook.prepend)
                         THEN Unwrap(hook.prepend) \o replaced ELSE replaced
             modified == IF IsSome(hook.append)
                         THEN prefixed \o Unwrap(hook.append) ELSE prefixed
         IN  IF modified # content THEN Continue(Some(modified))
             ELSE Continue(None)

----------------------------------------------------------------------------
(* Hook events *)

\* HookEvent: its hook point and the fields extract_primary_content reads.
\* JSON parameters are string values; serde_json::to_string puts them in
\* double quotes, written "q" here.
InboundEvent(content) == [point |-> "beforeInbound", content |-> content]
OutboundEvent(content) == [point |-> "beforeOutbound", content |-> content]
ToolCallEvent(parameters) == [point |-> "beforeToolCall", content |-> parameters]
SessionStartEvent(session_id) == [point |-> "onSessionStart", content |-> session_id]

JsonToString(value) == <<"q">> \o value \o <<"q">>

\* extract_primary_content
extract_primary_content(event) ==
    IF event.point = "beforeToolCall" THEN JsonToString(event.content)
    ELSE event.content

\* the events run through the registry
Events ==
    { InboundEvent(<<"a">>), InboundEvent(<<"x", "b">>),
      OutboundEvent(<<"a", "a">>), ToolCallEvent(<<"a">>) }

----------------------------------------------------------------------------
(* HookRegistry *)

Entry(hook, priority, seq) == [hook |-> hook, priority |-> priority, seq |-> seq]

\* the entry put after every entry whose priority is not greater (the list
\* stays sorted by priority, registration order among equals)
InsertByPriority(list, entry) ==
    LET k == Cardinality({i \in 1..Len(list) : list[i].priority <= entry.priority})
    IN  SubSeq(list, 1, k) \o <<entry>> \o SubSeq(list, k + 1, Len(list))

\* HookRegistry::register_with_priority: the hook enters the list of each
\* point it subscribes to
register_with_priority(reg, hook, priority, seq) ==
    [p \in ALL_HOOK_POINTS |->
        IF p \in hook.points
        THEN InsertByPriority(reg[p], Entry(hook, priority, seq))
        ELSE reg[p]]

RegisteredNames(reg) ==
    UNION {{reg[p][i].hook.name : i \in 1..Len(reg[p])} : p \in ALL_HOOK_POINTS}


\* hooks outside the bundles, registered directly by extensions: their
\* execute may continue, modify, reject, fail or outlast the timeout
CustomHooks ==
    { Entry(Hook("custom", ScopedName("ext", "open"), {"beforeInbound"},
                 "FailOpen", DEFAULT_TIMEOUT_MS, None, None, <<>>, None, None), 50, 0),
      Entry(Hook("custom", ScopedName("ext", "closed"), {"beforeInbound", "beforeOutbound"},
                 "FailClosed", DEFAULT_TIMEOUT_MS, None, None, <<>>, None, None), 100, 0) }

\* HookRegistrationSummary
Summary(hooks, outbound_webhooks, errors) ==
    [hooks |-> hooks, outbound_webhooks |-> outbound_webhooks, errors |-> errors]

\* HookRegistrationSummary::merge
merge(a, b) ==
    Summary(a.hooks + b.hooks, a.outbound_webhooks + b.outbound_webhooks,
            a.errors + b.errors)

\* HookRegistrationSummary::total_registered
total_registered(s) == s.hooks + s.outbound_webhooks

\* the registry, the registration counter and the summary of one
\* register_bundle call, threaded through its two loops
RegState(reg, seq, sum) == [registry |-> reg, nextSeq |-> seq, summary |-> sum]

\* mutant of RegisterRules: the loop is left at the first rule from_config
\* refuses
RECURSIVE RegisterRules_StopAtError(_, _, _, _)
RegisterRules_StopAtError(st, source, rules, i) ==
    IF i > Len(rules) THEN st
    ELSE LET r == RuleHookFromConfig(source, rules[i])
         IN  IF r.ok
             THEN RegisterRules_StopAtError(
                      RegState(register_with_priority(st.registry, r.hook, r.priority,
                                                      st.nextSeq),
                               st.nextSeq + 1,
                               merge(st.summary, Summary(1, 0, 0))),
                      source, rules, i + 1)
             ELSE RegState(st.registry, st.nextSeq, merge(st.summary, Summary(0, 0, 1)))

\* register_bundle, first loop: the rules from the i-th on
RECURSIVE RegisterRules(_, _, _, _)
RegisterRules(st, source, rules, i) ==
    IF i > Len(rules) THEN st
    ELSE LET r == RuleHookFromConfig(source, rules[i])
         IN  RegisterRules(
                 IF r.ok
                 THEN RegState(register_with_priority(st.registry, r.hook, r.priority,
                                                      st.nextSeq),
                               st.nextSeq + 1,
                               merge(st.summary, Summary(1, 0, 0)))
                 ELSE RegState(st.registry, st.nextSeq,
                               merge(st.summary, Summary(0, 0, 1))),
                 source, rules, i + 1)

\* register_bundle, second loop: the outbound webhooks from the i-th on
RECURSIVE RegisterWebhooks(_, _, _, _)
RegisterWebhooks(st, source, webhooks, i) ==
    IF i > Len(webhooks) THEN st
    ELSE LET r == WebhookHookFromConfig(source, webhooks[i])
         IN  RegisterWebhooks(
                 IF r.ok
                 THEN RegState(register_with_priority(st.registry, r.hook, r.priority,
                                                      st.nextSeq),
                               st.nextSeq + 1,
                               merge(st.summary, Summary(0, 1, 0)))
                 ELSE RegState(st.registry, st.nextSeq,
                               merge(st.summary, Summary(0, 0, 1))),
                 source, webhooks, i + 1)

\* register_bundle: every rule, then every outbound webhook
register_bundle(st, source, bundle) ==
    RegisterWebhooks(RegisterRules(st, source, bundle.rules, 1),
                     source, bundle.outbound_webhooks, 1)

\* HookBundleConfig
Bundle(rules, outbound_webhooks) ==
    [rules |-> rules, outbound_webhooks |-> outbound_webhooks]

\* sequences of at most n different elements of S
SeqsOf(S, n) ==
    UNION {{f \in [1..k -> S] : \A i, j \in 1..k : i # j => f[i] # f[j]} : k \in 0..n}

----------------------------------------------------------------------------
(* HookRegistry::run: one chain run, a step per hook *)

\* Result<HookOutcome, HookError> of a run; kind "none" while there is none
RunResult(kind, modified, reason, name) ==
    [kind |-> kind, modified |-> modified, reason |-> reason, name |-> name]

NoResult == RunResult("none", None, "", <<>>)

IdleRun ==
    [status |-> "idle", event |-> InboundEvent(<<>>), content |-> <<>>, idx |-> 1,
     snapshot |-> <<>>, modified |-> FALSE, log |-> <<>>, result |-> NoResult]

LogEntry(hook, input, outcome) ==
    [hook |-> hook, input |-> input, outcome |-> outcome]

\* OutboundWebhookPayload handed to the detached delivery task
WebhookPayload(hook, event, content) ==
    [hook |-> hook.name, point |-> event.point, content |-> content]

\* mutant of ExecuteOutcomes: the webhook hook awaits its POST inside execute
ExecuteOutcomes_AwaitsDelivery(hook, content) ==
    CASE hook.kind = "rule" -> {RuleHookExecute(hook, content)}
      [] hook.kind = "custom" ->
            {Continue(None), Continue(Some(content \o <<"c">>)), Reject("custom"),
             Failure("error"), Failure("timeout")}
      [] OTHER -> {Continue(None), Failure("error"), Failure("timeout")}

\* what racing hook.execute(event) against hook.timeout can yield
ExecuteOutcomes(hook, content) ==
    CASE hook.kind = "rule" -> {RuleHookExecute(hook, content)}
      [] hook.kind = "custom" ->
            {Continue(None), Continue(Some(content \o <<"c">>)), Reject("custom"),
             Failure("error"), Failure("timeout")}
      [] OTHER -> {Continue(None)}

\* the run after hook number run.idx returned outcome
AfterHook(r, hook, outcome) ==
    LET logged == [r EXCEPT !.log = Append(r.log, LogEntry(hook.name, r.content, outcome))]
    IN  CASE outcome.kind = "Continue" /\ IsSome(outcome.modified) ->
                [logged EXCEPT !.content = Unwrap(outcome.modified),
                               !.modified = TRUE,
                               !.idx = r.idx + 1]
          [] outcome.kind = "Continue" /\ ~IsSome(outcome.modified) ->
                [logged EXCEPT !.idx = r.idx + 1]
          [] outcome.kind = "Reject" ->
                [logged EXCEPT !.status = "done",
                               !.result = RunResult("Rejected", None, outcome.reason, <<>>)]
          [] OTHER ->
                IF hook.failure_mode = "FailOpen"
                THEN [logged EXCEPT !.idx = r.idx + 1]
                ELSE [logged EXCEPT !.status = "done",
                                    !.result = RunResult("HookFailed", None, outcome.kind,
                                                         hook.name)]

\* the outcome returned after the last hook
AfterLastHook(r) ==
    [r EXCEPT !.status = "done",
              !.result = RunResult("Continue",
                                   IF r.modified THEN Some(r.content) ELSE None, "", <<>>)]

----------------------------------------------------------------------------
(* The hook pipeline as a state machine *)

InitHooks ==
    /\ registry = [p \in ALL_HOOK_POINTS |-> <<>>]
    /\ nextSeq = 0
    /\ summary = Summary(0, 0, 0)
    /\ run = IdleRun
    /\ webhookTasks = <<>>

AuditRegistered == AuditLogHook.name \in RegisteredNames(registry)

\* registrations and skipped entries so far, the audit hook left out
EntriesProcessed ==
    nextSeq + summary.errors - (IF AuditRegistered THEN 1 ELSE 0)

\* register_bundled_hooks, its summary merged by the caller
RegisterBundledHooks ==
    /\ ~AuditRegistered
    /\ registry' = register_with_priority(registry, AuditLogHook, AUDIT_PRIORITY, nextSeq)
    /\ nextSeq' = nextSeq + 1
    /\ summary' = merge(summary, Summary(1, 0, 0))
    /\ UNCHANGED <<run, webhookTasks, agentVars, mcpVars, wsVars, pureVars>>

\* the bundles of valid entries handed to register_bundle
Bundles ==
    {Bundle(rules, webhooks) :
        rules \in SeqsOf(RuleConfigs, MaxHooks),
        webhooks \in SeqsOf(WebhookConfigs, MaxHooks)} \ {Bundle(<<>>, <<>>)}

BundleSize(bundle) == Len(bundle.rules) + Len(bundle.outbound_webhooks)

\* the scoped names a bundle would register
BundleNames(source, bundle) ==
    {ScopedName(source, bundle.rules[i].name) : i \in 1..Len(bundle.rules)}
        \cup {ScopedName(source, bundle.outbound_webhooks[i].name) :
                  i \in 1..Len(bundle.outbound_webhooks)}

\* register_bundle on a bundle of entries whose names are not yet registered
RegisterBundleOf(bundles) ==
    \E bundle \in bundles :
        /\ EntriesProcessed + BundleSize(bundle) <= MaxHooks
        /\ BundleNames("workspace", bundle) \cap RegisteredNames(registry) = {}
        /\ LET st == register_bundle(RegState(registry, nextSeq, Summary(0, 0, 0)),
                                     "workspace", bundle)
           IN  /\ registry' = st.registry
               /\ nextSeq' = st.nextSeq
               /\ summary' = merge(summary, st.summary)
        /\ UNCHANGED <<run, webhookTasks, agentVars, mcpVars, wsVars, pureVars>>

RegisterBundle == RegisterBundleOf(Bundles)

\* an extension registers its own hook with register_with_priority
RegisterCustom ==
    \E c \in CustomHooks :
        /\ EntriesProcessed + 1 <= MaxHooks
        /\ c.hook.name \notin RegisteredNames(registry)
        /\ registry' = register_with_priority(registry, c.hook, c.priority, nextSeq)
        /\ nextSeq' = nextSeq + 1
        /\ UNCHANGED <<summary, run, webhookTasks, agentVars, mcpVars, wsVars, pureVars>>

\* HookRegistry::run entered: the list of the event's point is snapshot
RunStart ==
    \E event \in Events :
        /\ run.status # "running"
        /\ Len(webhookTasks) < MaxDeliveries
        /\ run' = [IdleRun EXCEPT !.status = "running",
                                  !.event = event,
                                  !.content = extract_primary_content(event),
                                  !.snapshot = registry[event.point]]
        /\ UNCHANGED <<registry, nextSeq, summary, webhookTasks, agentVars, mcpVars, wsVars, pureVars>>

\* the next hook of the snapshot executes, raced against its timeout
RunHook ==
    /\ run.status = "running"
    /\ run.idx <= Len(run.snapshot)
    /\ LET hook == run.snapshot[run.idx].hook
       IN  /\ \E outcome \in ExecuteOutcomes(hook, run.content) :
                  run' = AfterHook(run, hook, outcome)
           /\ webhookTasks' =
                  IF hook.kind = "webhook"
                  THEN Append(webhookTasks, WebhookPayload(hook, run.event, run.content))
                  ELSE webhookTasks
    /\ UNCHANGED <<registry, nextSeq, summary, agentVars, mcpVars, wsVars, pureVars>>

\* past the last hook the run returns Continue
RunReturn ==
    /\ run.status = "running"
    /\ run.idx > Len(run.snapshot)
    /\ run' = AfterLastHook(run)
    /\ UNCHANGED <<registry, nextSeq, summary, webhookTasks, agentVars, mcpVars, wsVars, pureVars>>

\* a detached delivery task ends: the POST was sent, or failed and was logged
WebhookDelivered ==
    \E i \in 1..Len(webhookTasks) :
        /\ webhookTasks' = SubSeq(webhookTasks, 1, i - 1)
                              \o SubSeq(webhookTasks, i + 1, Len(webhookTasks))
        /\ UNCHANGED <<registry, nextSeq, summary, run, agentVars, mcpVars, wsVars, pureVars>>

NextHooks ==
    \/ RegisterBundledHooks
    \/ RegisterBundle
    \/ RegisterCustom
    \/ RunStart
    \/ RunHook
    \/ RunReturn
    \/ WebhookDelivered

\* ---------------------------------------------------------------------------
\* Submissions (src/agent/submission.rs).  A Uuid is a positive integer; the
\* content of a UserInput is not tracked, its turn tells the messages apart.
\* Resume and SwitchThread are variants the specification gives no behaviour
\* to; the loop modelled here is never handed one.
\* ---------------------------------------------------------------------------

Submission(type, request_id, approved, always) == [type |-> type, request_id |-> request_id, approved |-> approved, always |-> always]

user_input == Submission("UserInput", 0, FALSE, FALSE)

approval_Approves(request_id, approved) == Submission("ExecApproval", request_id, TRUE, FALSE)

approval(request_id, approved) == Submission("ExecApproval", request_id, approved, FALSE)

always_approve_Once(request_id) == Submission("ExecApproval", request_id, TRUE, FALSE)

always_approve(request_id) == Submission("ExecApproval", request_id, TRUE, TRUE)

interrupt == Submission("Interrupt", 0, FALSE, FALSE)

compact == Submission("Compact", 0, FALSE, FALSE)

undo == Submission("Undo", 0, FALSE, FALSE)

redo == Submission("Redo", 0, FALSE, FALSE)

clear == Submission("Clear", 0, FALSE, FALSE)

new_thread == Submission("NewThread", 0, FALSE, FALSE)

starts_turn(sub) == sub.type = "UserInput"

\* mutant of is_control: every submission that carries no payload
is_control_EveryCommand(sub) == sub.type \notin {"UserInput", "ExecApproval"}

is_control(sub) ==
    sub.type \in {"Interrupt", "Compact", "Undo", "Redo", "Clear", "NewThread"}

\* ApprovalOverlay::confirm: the (approved, always) pairs a user can answer with
ApprovalSelections == {"Yes", "No", "Always"}

\* confirm answering No together with always
confirm_DenyAlways(selection) ==
    CASE selection = "Yes" -> <<TRUE, FALSE>>
      [] selection = "No" -> <<FALSE, TRUE>>
      [] selection = "Always" -> <<TRUE, TRUE>>

confirm(selection) ==
    CASE selection = "Yes" -> <<TRUE, FALSE>>
      [] selection = "No" -> <<FALSE, FALSE>>
      [] selection = "Always" -> <<TRUE, TRUE>>

\* the ExecApproval the channel adapter builds from an answer to request id
ApprovalSubmission(id, selection) ==
    LET answer == confirm(selection)
    IN  IF answer[2] THEN always_approve(id) ELSE approval(id, answer[1])

\* ---------------------------------------------------------------------------
\* Tools.  HttpTool overrides requires_approval; a tool that does not override
\* it takes the trait's default.
\* ---------------------------------------------------------------------------

HttpTool_requires_approval_Never == FALSE

HttpTool_requires_approval == TRUE

Tool_requires_approval_default == FALSE

ToolNames == {"http", "echo", "memory_search"}

requires_approval(tool) ==
    IF tool = "http" THEN HttpTool_requires_approval ELSE Tool_requires_approval_default

\* step 4 of dispatch: the call must wait for an ExecApproval
Gated(tool, always_approved) ==
    requires_approval(tool) /\ tool \notin always_approved

\* the tool calls one model response can carry, in the order returned
ToolSelections == {<<"http", "http">>, <<"echo", "http">>, <<"echo", "memory_search">>}

\* ---------------------------------------------------------------------------
\* Agent loop (specification 4.4, 4.2, 5).  The loop, the dispatcher and the
\* thread are not among the sources; they follow the specification.  A turn owns
\* the messages appended during it; they join the thread's history when the
\* turn completes, so a turn that is interrupted or fails leaves the thread at
\* its parent checkpoint.
\* ---------------------------------------------------------------------------

ChatMessage(role, turn_id, tool, result) == [role |-> role, turn |-> turn_id, tool |-> tool, result |-> result]

\* the snapshot taken when a turn starts; immutable from then on
Checkpoint(msgs, session) == [messages |-> msgs, always_approved |-> session]

Turn(id, state, checkpoint, msgs) == [id |-> id, state |-> state, checkpoint |-> checkpoint, messages |-> msgs]

NoTurn == Turn(0, "None", Checkpoint(<<>>, {}), <<>>)

TurnActive(t) == t.state \in {"Running", "AwaitingApproval"}

ApprovalRequest(id, tool, call, turn_id) == [id |-> id, tool |-> tool, call |-> call, turn |-> turn_id]

ToolCall(tool, serial) == [tool |-> tool, status |-> "new", result |-> "", serial |-> serial]

Work(kind, turn_id, call) == [kind |-> kind, turn |-> turn_id, call |-> call]

Execution(tool, request, always) == [tool |-> tool, request |-> request, always |-> always]

\* what the submission processed in a step took away: the message list an
\* Undo replaced, or the redo stack a UserInput cleared
Observed(type, msgs, stack) == [type |-> type, messages |-> msgs, redo |-> stack]

\* the step took nothing away
NoObservation == Observed("", <<>>, <<>>)

Replaced(msgs) == Observed("Undo", msgs, <<>>)

\* the step interrupted the turn under way
TurnInterrupted == Observed("Interrupt", <<>>, <<>>)

Discarded(stack) ==
    IF stack = <<>> THEN NoObservation ELSE Observed("UserInput", <<>>, stack)

\* the outcome of a hook chain run by the loop, as the loop observes it
ChainVerdicts == {"Continue", "Rejected"}

----------------------------------------------------------------------------
(***************************************************************************)
(* MCP tools (src/tools/mcp/protocol.rs) and the MCP client with its       *)
(* tool-list cache (src/tools/mcp/client.rs).                              *)
(***************************************************************************)
McpToolAnnotations(destructive_hint, side_effects_hint, read_only_hint) ==
    [destructive_hint |-> destructive_hint, side_effects_hint |-> side_effects_hint,
     read_only_hint |-> read_only_hint]

\* annotations is an Option<McpToolAnnotations>.
McpTool(name, annotations) == [name |-> name, annotations |-> annotations]

Annotated(name, destructive_hint, side_effects_hint, read_only_hint) ==
    McpTool(name, Some(McpToolAnnotations(destructive_hint, side_effects_hint, read_only_hint)))

\* The answers an MCP server gives to tools/list: between them the tools
\* carry every combination of the three hints, and one has no annotations.
HarmlessTools ==
    <<McpTool("search", None), Annotated("read", FALSE, FALSE, TRUE),
      Annotated("fetch", FALSE, TRUE, FALSE), Annotated("sync", FALSE, TRUE, TRUE)>>

DestructiveTools ==
    <<Annotated("delete", TRUE, FALSE, FALSE), Annotated("purge", TRUE, FALSE, TRUE),
      Annotated("drop", TRUE, TRUE, FALSE), Annotated("reset", TRUE, TRUE, TRUE),
      Annotated("list", FALSE, FALSE, FALSE)>>

ServerLists == {<<>>, HarmlessTools, DestructiveTools}

McpTool_requires_approval_AnyHint(tool) ==
    IF IsSome(tool.annotations)
    THEN Unwrap(tool.annotations).destructive_hint \/ Unwrap(tool.annotations).side_effects_hint
    ELSE FALSE

\* annotations.as_ref().map(|a| a.destructive_hint).unwrap_or(false)
McpTool_requires_approval(tool) ==
    IF IsSome(tool.annotations) THEN Unwrap(tool.annotations).destructive_hint ELSE FALSE

McpToolWrapper(tool) == [tool |-> tool]

McpToolWrapper_requires_approval(wrapper) == McpTool_requires_approval(wrapper.tool)

\* What a list_tools call did: its result (Ok with a list, or Err), whether it
\* sent a tools/list request, the list settled when it started, and whether
\* it was the first call started after a clear_cache.
ListReturn(ok, tools, requested, after, first) ==
    [ok |-> ok, tools |-> tools, requested |-> requested, after |-> after, first |-> first]

NoReturn == ListReturn(FALSE, <<>>, FALSE, None, FALSE)

\* A list_tools call whose request is under way: pc is "sent" until the
\* response is in, then "store" until the cache is written; overwritten
\* tells whether another call has written the cache since this one read it.
ListCall(id, wrap, after, first, pc, tools, overwritten) ==
    [id |-> id, wrap |-> wrap, after |-> after, first |-> first, pc |-> pc, tools |-> tools,
     overwritten |-> overwritten]

InitMcp ==
    /\ tools_cache = None
    /\ next_id = 1
    /\ server_tools = HarmlessTools
    /\ list_calls = {}
    /\ wrappers = <<>>
    /\ decision = None
    /\ settled = None
    /\ cleared = FALSE
    /\ lastReturn = NoReturn

----------------------------------------------------------------------------
(***************************************************************************)
(* The workspace (src/workspace/mod.rs, src/workspace/document.rs).        *)
(* Content is a sequence of tokens; a daily-log entry's "[HH:MM:SS] "      *)
(* prefix is one token.  One daily log is modelled, the one of the current *)
(* date.  The repository and the chunker are outside src/ and follow the   *)
(* written specification.                                                  *)
(***************************************************************************)
\* DocType::Memory (a singleton) and DocType::DailyLog titled with today's date
Docs == {"memory", "daily_log"}

Entries == {<<"x">>, <<"y">>}

\* the contents update_document is called with
Replacements == {<<"z">>}

\* Utc::now().format("%H:%M:%S")
Timestamps == {"09:00:00"}

\* MemoryDocument::new: a document is created with empty content
MemoryDocument_new == Some(<<>>)

Content(document) == UnwrapOr(document, <<>>)

append_memory_content_SingleNewline(content, entry) ==
    IF content = <<>> THEN entry ELSE content \o <<"\n">> \o entry

\* append_memory: entry, or format!("{}\n\n{}", doc.content, entry)
append_memory_content(content, entry) ==
    IF content = <<>> THEN entry ELSE content \o <<"\n", "\n">> \o entry

\* format!("[{}] {}", timestamp, entry)
timestamped_entry(timestamp, entry) == << <<"[", timestamp, "] ">> >> \o entry

\* append_daily_log: timestamped_entry, or format!("{}\n{}", doc.content, timestamped_entry)
append_daily_log_content(content, timestamp, entry) ==
    IF content = <<>>
    THEN timestamped_entry(timestamp, entry)
    ELSE content \o <<"\n">> \o timestamped_entry(timestamp, entry)

\* ChunkConfig::default(), scaled down from about 512 tokens with about 64
\* tokens of overlap
ChunkConfig_default == [chunk_size |-> 3, overlap |-> 1]

RECURSIVE ChunksFrom(_, _, _)
ChunksFrom(content, config, start) ==
    IF start + config.chunk_size >= Len(content)
    THEN <<SubSeq(content, start + 1, Len(content))>>
    ELSE <<SubSeq(content, start + 1, start + config.chunk_size)>>
         \o ChunksFrom(content, config, start + config.chunk_size - config.overlap)

\* chunk_document: windows of chunk_size tokens that overlap by overlap
\* tokens; the last may be shorter; empty content gives no chunk
chunk_document(content, config) ==
    IF content = <<>> THEN <<>> ELSE ChunksFrom(content, config, 0)

MemoryChunk(chunk_index, content, embedding) ==
    [chunk_index |-> chunk_index, content |-> content, embedding |-> embedding]

\* A workspace write under way.  pc names the repository call it makes next:
\* "update" (update_document), "get" (reindex_document's get_document_by_id),
\* "delete" (delete_chunks) or "insert" (insert_chunk of the next of todo).
Write(id, kind, doc, entry, read, new_content, pc, todo, index) ==
    [id |-> id, kind |-> kind, doc |-> doc, entry |-> entry, read |-> read,
     new_content |-> new_content, pc |-> pc, todo |-> todo, index |-> index]

InitWorkspace ==
    /\ documents = [doc \in Docs |-> None]
    /\ chunks = [doc \in Docs |-> <<>>]
    /\ writes = {}
    /\ nextWrite = 0
    /\ held = [doc \in Docs |-> {<<>>}]
    /\ returned = {}

----------------------------------------------------------------------------
(***************************************************************************)
(* Workspace::system_prompt (src/workspace/mod.rs).  A prompt is a         *)
(* sequence of tokens: a header, the "\n\n" after it, the tokens of the    *)
(* document's content, and the "\n\n---\n\n" between two parts.            *)
(***************************************************************************)
\* the four identity documents in the order of identity_types, then the
\* daily logs of [today, yesterday]
identity_types == <<"Agents", "Soul", "User", "Identity">>

PromptDates == <<"today", "yesterday">>

PromptSources == identity_types \o PromptDates

PromptSourceSet == {PromptSources[i] : i \in 1..Len(PromptSources)}

Header(source) ==
    CASE source = "Agents" -> "## Agent Instructions"
      [] source = "Soul" -> "## Core Values"
      [] source = "User" -> "## User Context"
      [] source = "Identity" -> "## Identity"
      [] source = "today" -> "## Today's Notes"
      [] source = "yesterday" -> "## Yesterday's Notes"

\* format!("{}\n\n{}", header, doc.content)
PromptPart(header, content) == <<header, "\n\n">> \o content

RECURSIVE join(_, _)
\* parts.join(separator)
join(parts, separator) ==
    IF parts = <<>> THEN <<>>
    ELSE IF Len(parts) = 1 THEN parts[1]
    ELSE parts[1] \o <<separator>> \o join(Tail(parts), separator)

RECURSIVE PromptParts(_, _, _)
\* The two loops of system_prompt over the sources still to read: a read
\* that returns Err (the reads in failed; a missing identity document is one
\* of them) is skipped, and so is a document with empty content.
PromptParts(sources, docs, failed) ==
    IF sources = <<>> THEN <<>>
    ELSE LET source == Head(sources)
             rest == PromptParts(Tail(sources), docs, failed)
         IN  IF source \in failed \/ ~IsSome(docs[source]) THEN rest
             ELSE IF Unwrap(docs[source]) # <<>>
                  THEN <<PromptPart(Header(source), Unwrap(docs[source]))>> \o rest
                  ELSE rest

system_prompt_EmptyPartsKept(docs, failed) ==
    join([i \in 1..Len(PromptSources) |->
             PromptPart(Header(PromptSources[i]), Content(docs[PromptSources[i]]))],
         "\n\n---\n\n")

\* Workspace::system_prompt: Ok(parts.join("\n\n---\n\n"))
system_prompt(docs, failed) == join(PromptParts(PromptSources, docs, failed), "\n\n---\n\n")

PromptContents == {<<>>, <<"a">>}

\* mutant of system_prompt_result: a failed read is passed on with `?`
system_prompt_result_Propagates(docs, failed) ==
    IF failed # {} THEN [ok |-> FALSE, text |-> <<>>]
    ELSE [ok |-> TRUE, text |-> system_prompt(docs, failed)]

\* the Result of Workspace::system_prompt: every read is taken with
\* `if let Ok(doc)`, the function ends in Ok(...)
system_prompt_result(docs, failed) == [ok |-> TRUE, text |-> system_prompt(docs, failed)]

\* What a system_prompt call returned, with the reads of it that failed.
PromptResult(result, failed) ==
    [ok |-> result.ok, result |-> result.text, failed |-> failed]

InitPrompt ==
    /\ promptDocs = [source \in PromptSourceSet |-> None]
    /\ prompt = None

InitAgent ==
    /\ loopState = "Idle"
    /\ messages = <<>>
    /\ turn = NoTurn
    /\ nextTurnId = 0
    /\ undoStack = <<>>
    /\ redoStack = <<>>
    /\ queue = <<>>
    /\ pending = None
    /\ nextRequestId = 0
    /\ alwaysApproved = {}
    /\ batch = <<>>
    /\ inflight = {}
    /\ rounds = 0
    /\ executions = {}
    /\ approvedIds = {}
    /\ expiredIds = {}
    /\ latest = NoObservation
    /\ peerAlwaysApproved = {}

----------------------------------------------------------------------------
(***************************************************************************)
(* Hybrid search.  Workspace::search hands the query, the query's          *)
(* embedding (when a provider is configured) and the limit to the          *)
(* repository, which ranks the chunks lexically and by vector similarity   *)
(* and fuses the two rankings by Reciprocal Rank Fusion.                   *)
(***************************************************************************)
\* the chunk ids of the store
SearchChunks == 1 .. 4

\* a candidate list: chunks in rank order, no chunk twice
Rankings ==
    {ranking \in UNION {[1 .. n -> SearchChunks] : n \in 0 .. Cardinality(SearchChunks)} :
        \A i, j \in DOMAIN ranking : i # j => ranking[i] # ranking[j]}

Min(a, b) == IF a <= b THEN a ELSE b

Range(seq) == {seq[i] : i \in DOMAIN seq}

Take(seq, n) == SubSeq(seq, 1, Min(n, Len(seq)))

\* the rank (1-based) of a chunk in a candidate list, None when it is not in it
RankOf(ranking, chunk) ==
    IF chunk \in Range(ranking)
    THEN Some(CHOOSE i \in DOMAIN ranking : ranking[i] = chunk)
    ELSE None

rrf_k == 60

\* scores are kept as integers: every 1/(k + rank) is multiplied by the
\* product of the denominators that can occur
ScoreScale == (rrf_k + 1) * (rrf_k + 2) * (rrf_k + 3) * (rrf_k + 4)

\* mutant of rrf_term: the rank itself instead of its reciprocal
rrf_term_RankItself(rank) == IF IsSome(rank) THEN Unwrap(rank) ELSE 0

\* 1/(k + rank), scaled; a list the chunk is not in contributes nothing
rrf_term(rank) == IF IsSome(rank) THEN ScoreScale \div (rrf_k + Unwrap(rank)) ELSE 0

SearchResult(chunk, fts_rank, vector_rank) ==
    [chunk |-> chunk, score |-> rrf_term(fts_rank) + rrf_term(vector_rank),
     fts_rank |-> fts_rank, vector_rank |-> vector_rank]

\* mutant of is_hybrid: a rank in either list is enough
is_hybrid_EitherList(result) == IsSome(result.fts_rank) \/ IsSome(result.vector_rank)

is_hybrid(result) == IsSome(result.fts_rank) /\ IsSome(result.vector_rank)

\* score descending, equal scores by chunk id ascending
Outranks(a, b) == a.score > b.score \/ (a.score = b.score /\ a.chunk < b.chunk)

RECURSIVE SortedByScore(_)
SortedByScore(results) ==
    IF results = {} THEN <<>>
    ELSE LET best == CHOOSE a \in results : \A b \in results \ {a} : Outranks(a, b)
         IN  <<best>> \o SortedByScore(results \ {best})

reciprocal_rank_fusion(lexical, vector, limit) ==
    Take(SortedByScore({SearchResult(chunk, RankOf(lexical, chunk), RankOf(vector, chunk)) :
                           chunk \in Range(lexical) \cup Range(vector)}),
         limit)

\* Repository::hybrid_search with the candidate lists the store produces for
\* the query; without an embedding the lexical top K is returned directly
hybrid_search(lexical, vector, embedding, limit) ==
    IF IsSome(embedding)
    THEN reciprocal_rank_fusion(lexical, vector, limit)
    ELSE [i \in 1 .. Min(limit, Len(lexical)) |-> SearchResult(lexical[i], Some(i), None)]

SearchOk(results) == [ok |-> TRUE, results |-> results, err |-> "none"]

SearchErr(kind) == [ok |-> FALSE, results |-> <<>>, err |-> kind]

\* what the embedding provider and the repository answer to one search
SearchAnswers == [embed : {"ok", "err"}, query : {"ok", "err"}]

\* Workspace::search_with_config
search_with_config(embeddings, answers, lexical, vector, limit) ==
    IF embeddings /\ answers.embed = "err" THEN SearchErr("EmbeddingFailed")
    ELSE IF answers.query = "err" THEN SearchErr("Database")
    ELSE SearchOk(hybrid_search(lexical, vector,
                                IF embeddings THEN Some("embedding") ELSE None, limit))

\* the limit parameter of memory_search
SearchLimits == {None} \cup {Some(limit) : limit \in 1 .. MaxLimit}

\* MemorySearchTool::execute
MemorySearchTool_execute(embeddings, answers, lexical, vector, limit) ==
    LET results == search_with_config(embeddings, answers, lexical, vector,
                                      Min(UnwrapOr(limit, 5), 20))
    IN  IF ~results.ok THEN [ok |-> FALSE, err |-> "ExecutionFailed", results |-> <<>>]
        ELSE [ok |-> TRUE, err |-> "none",
              results |-> [i \in DOMAIN results.results |->
                              [chunk |-> results.results[i].chunk,
                               score |-> results.results[i].score,
                               is_hybrid_match |-> is_hybrid(results.results[i])]]]

InitSearch == search = None

----------------------------------------------------------------------------
(***************************************************************************)
(* Plan parsing.  A model response is a string over four kinds of text:    *)
(* an opening brace, a closing brace, the members of an ActionPlan ("g":   *)
(* goal, actions, confidence) and any other prose ("p").                   *)
(***************************************************************************)
ResponseTokens == {"{", "}", "g", "p"}

Responses == UNION {[1 .. n -> ResponseTokens] : n \in 0 .. MaxResponse}

\* str::find / str::rfind of one character
find(text, token) ==
    IF token \in Range(text)
    THEN Some(CHOOSE i \in DOMAIN text :
                  text[i] = token /\ \A j \in 1 .. i - 1 : text[j] # token)
    ELSE None

rfind(text, token) ==
    IF token \in Range(text)
    THEN Some(CHOOSE i \in DOMAIN text :
                  text[i] = token /\ \A j \in i + 1 .. Len(text) : text[j] # token)
    ELSE None

extract_json(text) ==
    IF ~IsSome(find(text, "{")) \/ ~IsSome(rfind(text, "}")) THEN None
    ELSE IF Unwrap(find(text, "{")) < Unwrap(rfind(text, "}"))
         THEN Some(SubSeq(text, Unwrap(find(text, "{")), Unwrap(rfind(text, "}"))))
         ELSE None

ActionPlan(goal, actions) == [goal |-> goal, actions |-> actions]

PlanOk(plan) == [ok |-> TRUE, plan |-> Some(plan), err |-> "none"]

InvalidResponse == [ok |-> FALSE, plan |-> None, err |-> "InvalidResponse"]

\* serde_json::from_str::<ActionPlan>: the whole string must be one JSON
\* object that has the plan's members; an action's parameters are an object
\* of their own
from_str(json_str) ==
    IF json_str = <<"{", "g", "}">> THEN PlanOk(ActionPlan("g", 0))
    ELSE IF json_str = <<"{", "g", "{", "}", "}">> THEN PlanOk(ActionPlan("g", 1))
    ELSE InvalidResponse

parse_plan(content) == from_str(UnwrapOr(extract_json(content), content))

InitParse == planned = None

\* the submissions a channel can deliver
Submissions ==
    {user_input, interrupt, compact, undo, redo, clear, new_thread,
     Submission("Resume", 0, FALSE, FALSE), Submission("SwitchThread", 0, FALSE, FALSE)}
        \cup {approval(0, approved) : approved \in BOOLEAN} \cup {always_approve(0)}

Classification(sub) ==
    [sub |-> sub, starts_turn |-> starts_turn(sub), is_control |-> is_control(sub)]

InitSubmission == classified = <<>>

----------------------------------------------------------------------------
(***************************************************************************)
(* Rule hooks under execution: every combination of guard, reject reason,  *)
(* replacements, prefix and suffix, on every short content.                *)
(***************************************************************************)
RuleReplacements ==
    {Replacement(<<"a">>, <<"b">>), Replacement(<<"b">>, <<"a">>),
     Replacement(<<"b">>, <<>>)}

RuleExecConfigs ==
    {RuleConfig("rule", {"beforeInbound"}, None, None, None,
                when_regex, reject_reason, replacements, prepend, append) :
        when_regex \in {None, Some(<<"a">>)},
        reject_reason \in {None, Some("forbidden content")},
        replacements \in UNION {[1 .. n -> RuleReplacements] : n \in 0 .. MaxReplacements},
        prepend \in {None, Some(<<>>), Some(<<"x">>)},
        append \in {None, Some(<<>>), Some(<<"y">>)}}

RuleContents == UNION {[1 .. n -> {"a", "b"}] : n \in 0 .. 2}

InitRule == executed = None

InitBundle == registration = None

\* ---------------------------------------------------------------------------
\* The approval overlay (src/channels/cli/overlay.rs)
\* ---------------------------------------------------------------------------
\* ApprovalSelection::next
ApprovalSelection_next(selection) ==
    CASE selection = "Yes" -> "No"
      [] selection = "No" -> "Always"
      [] selection = "Always" -> "Yes"

\* ApprovalSelection::prev
ApprovalSelection_prev(selection) ==
    CASE selection = "Yes" -> "Always"
      [] selection = "No" -> "Yes"
      [] selection = "Always" -> "No"

\* the keys a user presses on the overlay
ShortcutKeys == {"y", "Y", "n", "N", "a", "A", "x"}

to_ascii_lowercase(c) ==
    CASE c = "Y" -> "y"
      [] c = "N" -> "n"
      [] c = "A" -> "a"
      [] OTHER -> c

\* ApprovalOverlay::handle_shortcut: the selection after the key and the
\* Option<bool> returned
handle_shortcut(selection, c) ==
    CASE to_ascii_lowercase(c) = "y" -> [selection |-> selection, returned |-> Some(TRUE)]
      [] to_ascii_lowercase(c) = "n" -> [selection |-> selection, returned |-> Some(FALSE)]
      [] to_ascii_lowercase(c) = "a" -> [selection |-> "Always", returned |-> Some(TRUE)]
      [] OTHER -> [selection |-> selection, returned |-> None]

\* the overlay with what handle_shortcut and confirm returned last and the
\* Submission built last (None: not called yet)
Overlay(selection, shortcut, answer, built) ==
    [selection |-> selection, shortcut |-> shortcut, answer |-> answer, built |-> built]

\* ApprovalOverlay::new
ApprovalOverlay_new == Overlay("Yes", None, None, None)

\* the request ids an ExecApproval is built for
ApprovalRequestIds == {1, 2}

InitOverlay == overlay = ApprovalOverlay_new

InitComposer == composed = None

Init ==
    /\ InitHooks /\ InitAgent /\ InitMcp /\ InitWorkspace
    /\ InitPrompt /\ InitSearch /\ InitParse /\ InitSubmission
    /\ InitRule /\ InitBundle
    /\ InitOverlay /\ InitComposer

SpecHooks == Init /\ [][NextHooks]_vars

\* the UserInputs submitted and the model responses with tool calls so far
Spent == nextTurnId + Len(queue) + rounds

\* a UserInput may start a turn only when no turn is under way
AcceptsTurn_Always(state) == TRUE

AcceptsTurn(state) == state = "Idle"

\* any new UserInput clears the redo stack
RedoAfterUserInput_Kept(stack) == stack

RedoAfterUserInput(stack) == <<>>

\* mutant of BeginTurn: the snapshot is taken after the user message is
\* appended
BeginTurn_SnapshotAfterAppend(verdict) ==
    LET id == nextTurnId + 1
        cp == Checkpoint(Append(messages, ChatMessage("user", id, "", "")), alwaysApproved)
    IN  /\ nextTurnId' = id
        /\ redoStack' = RedoAfterUserInput(redoStack)
        /\ IF verdict = "Continue"
           THEN /\ turn' = Turn(id, "Running", cp, <<ChatMessage("user", id, "", "")>>)
                /\ loopState' = "Reasoning"
                /\ inflight' = inflight \cup {Work("llm", id, 0)}
           ELSE /\ turn' = Turn(id, "Failed", cp, <<>>)
                /\ loopState' = "Idle"
                /\ inflight' = inflight
        /\ batch' = <<>>
        /\ pending' = None
        /\ UNCHANGED <<messages, undoStack, nextRequestId, alwaysApproved, rounds,
                       executions, approvedIds, expiredIds>>

\* turn lifecycle step 1, the inbound chain consulted first: on Continue the
\* turn is created on a snapshot of the thread, the user message appended and
\* the first model request issued; on Rejected the turn ends at once
BeginTurn(verdict) ==
    LET id == nextTurnId + 1
        cp == Checkpoint(messages, alwaysApproved)
    IN  /\ nextTurnId' = id
        /\ redoStack' = RedoAfterUserInput(redoStack)
        /\ IF verdict = "Continue"
           THEN /\ turn' = Turn(id, "Running", cp, <<ChatMessage("user", id, "", "")>>)
                /\ loopState' = "Reasoning"
                /\ inflight' = inflight \cup {Work("llm", id, 0)}
           ELSE /\ turn' = Turn(id, "Failed", cp, <<>>)
                /\ loopState' = "Idle"
                /\ inflight' = inflight
        /\ batch' = <<>>
        /\ pending' = None
        /\ UNCHANGED <<messages, undoStack, nextRequestId, alwaysApproved, rounds,
                       executions, approvedIds, expiredIds>>

\* a UserInput arrives and the loop takes it up at once
UserInputStartsTurn ==
    \E verdict \in ChainVerdicts :
        /\ starts_turn(user_input)
        /\ AcceptsTurn(loopState)
        /\ queue = <<>>
        /\ Spent < MaxWork
        /\ BeginTurn(verdict)
        /\ latest' = Discarded(redoStack)
        /\ UNCHANGED <<hookVars, mcpVars, wsVars, pureVars, peerAlwaysApproved, queue>>

\* a UserInput arrives while it cannot start a turn: it waits
UserInputQueued ==
    /\ starts_turn(user_input)
    /\ ~(AcceptsTurn(loopState) /\ queue = <<>>)
    /\ Spent < MaxWork
    /\ queue' = Append(queue, user_input)
    /\ redoStack' = RedoAfterUserInput(redoStack)
    /\ latest' = Discarded(redoStack)
    /\ UNCHANGED <<hookVars, mcpVars, wsVars, pureVars, peerAlwaysApproved, loopState, messages, turn, nextTurnId, undoStack, pending,
                   nextRequestId, alwaysApproved, batch, inflight, rounds, executions,
                   approvedIds, expiredIds>>

\* the loop, back in Idle, takes the oldest waiting UserInput
UserInputDequeued ==
    \E verdict \in ChainVerdicts :
        /\ queue # <<>>
        /\ AcceptsTurn(loopState)
        /\ queue' = Tail(queue)
        /\ BeginTurn(verdict)
        /\ latest' = NoObservation
        /\ UNCHANGED <<hookVars, mcpVars, wsVars, pureVars, peerAlwaysApproved>>

\* the model request of the current turn, while the turn still waits for it
LlmWork == Work("llm", turn.id, 0)

LlmAwaited ==
    /\ loopState = "Reasoning"
    /\ turn.state = "Running"
    /\ batch = <<>>
    /\ LlmWork \in inflight

select_tools_Reversed(available_tools, tool_calls) ==
    [i \in 1..Len(tool_calls) |-> tool_calls[Len(tool_calls) + 1 - i]]

\* Reasoning::select_tools: no request without tools to offer; otherwise one
\* selection per tool call of the response, in the order of the response
select_tools(available_tools, tool_calls) ==
    IF available_tools = {} THEN <<>>
    ELSE [i \in 1..Len(tool_calls) |-> tool_calls[i]]

\* select_tools returns the selections for a response carrying tool_calls:
\* they form the batch to dispatch, serialized when one of them is
\* approval-gated
SelectsTools(tool_calls) ==
    /\ LlmAwaited
    /\ Spent < MaxWork
    /\ LET selection == select_tools(ToolNames, tool_calls)
           serial == \E i \in 1..Len(selection) : Gated(selection[i], alwaysApproved)
       IN  batch' = [i \in 1..Len(selection) |-> ToolCall(selection[i], serial)]
    /\ rounds' = rounds + 1
    /\ inflight' = inflight \ {LlmWork}
    /\ latest' = NoObservation
    /\ UNCHANGED <<hookVars, mcpVars, wsVars, pureVars, peerAlwaysApproved, loopState, messages, turn, nextTurnId,
                   undoStack, redoStack, queue, pending, nextRequestId, alwaysApproved,
                   executions, approvedIds, expiredIds>>

LlmSelectsTools == \E tool_calls \in ToolSelections : SelectsTools(tool_calls)

\* select_tools returns no call and respond returns the final text, held by
\* the loop until the outbound chains have run
LlmResponds ==
    /\ LlmAwaited
    /\ loopState' = "Responding"
    /\ inflight' = inflight \ {LlmWork}
    /\ latest' = NoObservation
    /\ UNCHANGED <<hookVars, mcpVars, wsVars, pureVars, peerAlwaysApproved, messages, turn, nextTurnId, undoStack, redoStack, queue,
                   pending, nextRequestId, alwaysApproved, batch, rounds, executions,
                   approvedIds, expiredIds>>

\* LlmError: the turn fails, its checkpoint stays
LlmFails ==
    /\ LlmAwaited
    /\ turn' = [turn EXCEPT !.state = "Failed"]
    /\ loopState' = "Idle"
    /\ inflight' = inflight \ {LlmWork}
    /\ latest' = NoObservation
    /\ UNCHANGED <<hookVars, mcpVars, wsVars, pureVars, peerAlwaysApproved, messages, nextTurnId, undoStack, redoStack, queue, pending,
                   nextRequestId, alwaysApproved, batch, rounds, executions, approvedIds,
                   expiredIds>>

ToolMessage(call) == ChatMessage("tool", turn.id, call.tool, call.result)

\* a call leaves the dispatcher with a result; a serialized call's result is
\* appended at once, a concurrent call's result is buffered in the batch
Finished(i, result) ==
    LET done == [batch[i] EXCEPT !.status = "done", !.result = result]
    IN  /\ batch' = [batch EXCEPT ![i] = done]
        /\ turn' = IF done.serial
                   THEN [turn EXCEPT !.messages = Append(@, ToolMessage(done)),
                                     !.state = "Running"]
                   ELSE [turn EXCEPT !.state = "Running"]

\* step 5 of dispatch: execute is called
Executes(i, tool, request) ==
    /\ batch' = [batch EXCEPT ![i].status = "running"]
    /\ executions' = executions \cup {Execution(tool, request, tool \in alwaysApproved)}
    /\ inflight' = inflight \cup {Work("tool", turn.id, i)}

\* the calls of a batch are dispatched together, or one after the other in
\* the order returned when the batch is serialized
Dispatchable(i) ==
    /\ loopState = "Reasoning"
    /\ turn.state = "Running"
    /\ i \in 1..Len(batch)
    /\ batch[i].status = "new"
    /\ batch[i].serial => \A j \in 1..(i - 1) : batch[j].status = "done"

ToolCallRejection_Rejected == "Rejected"

\* what a tool call returns when a BeforeToolCall hook rejects it
ToolCallRejection == "Denied"

\* step 3 of dispatch: a BeforeToolCall hook rejects, the call is Denied
ToolCallRejected ==
    \E i \in 1..Len(batch) :
        /\ Dispatchable(i)
        /\ Finished(i, ToolCallRejection)
        /\ latest' = NoObservation
        /\ UNCHANGED <<hookVars, mcpVars, wsVars, pureVars, peerAlwaysApproved, loopState, messages, nextTurnId, undoStack, redoStack,
                       queue, pending, nextRequestId, alwaysApproved, inflight, rounds,
                       executions, approvedIds, expiredIds>>

\* step 4 of dispatch: the call is gated, the loop suspends with NeedApproval
ToolCallNeedsApproval ==
    \E i \in 1..Len(batch) :
        /\ Dispatchable(i)
        /\ Gated(batch[i].tool, alwaysApproved)
        /\ nextRequestId' = nextRequestId + 1
        /\ pending' = Some(ApprovalRequest(nextRequestId + 1, batch[i].tool, i, turn.id))
        /\ batch' = [batch EXCEPT ![i].status = "awaiting"]
        /\ turn' = [turn EXCEPT !.state = "AwaitingApproval"]
        /\ loopState' = "AwaitingApproval"
        /\ latest' = NoObservation
        /\ UNCHANGED <<hookVars, mcpVars, wsVars, pureVars, peerAlwaysApproved, messages, nextTurnId, undoStack, redoStack, queue,
                       alwaysApproved, inflight, rounds, executions, approvedIds, expiredIds>>

\* step 4 of dispatch passed without a gate: the call executes
ToolCallExecutes ==
    \E i \in 1..Len(batch) :
        /\ Dispatchable(i)
        /\ ~Gated(batch[i].tool, alwaysApproved)
        /\ Executes(i, batch[i].tool, 0)
        /\ latest' = NoObservation
        /\ UNCHANGED <<hookVars, mcpVars, wsVars, pureVars, peerAlwaysApproved, loopState, messages, turn, nextTurnId, undoStack,
                       redoStack, queue, pending, nextRequestId, alwaysApproved, rounds,
                       approvedIds, expiredIds>>

\* the answers a channel can send to the approval requests issued so far
ApprovalSubmissions ==
    {ApprovalSubmission(id, selection) :
        id \in 1..nextRequestId, selection \in ApprovalSelections}

Resolves(sub) == IsSome(pending) /\ Unwrap(pending).id = sub.request_id

\* an ExecApproval is processed: it resolves the pending request of the same
\* id, and is refused without effect when there is none
ProcessExecApproval(sub) ==
    /\ sub.type = "ExecApproval"
    /\ IF Resolves(sub)
       THEN LET request == Unwrap(pending)
            IN  /\ pending' = None
                /\ loopState' = "Reasoning"
                /\ IF sub.approved
                   THEN /\ approvedIds' = approvedIds \cup {request.id}
                        /\ alwaysApproved' = IF sub.always
                                             THEN alwaysApproved \cup {request.tool}
                                             ELSE alwaysApproved
                        /\ Executes(request.call, request.tool, request.id)
                        /\ turn' = [turn EXCEPT !.state = "Running"]
                   ELSE /\ Finished(request.call, "Denied")
                        /\ UNCHANGED <<approvedIds, alwaysApproved, executions, inflight>>
       ELSE UNCHANGED <<pending, loopState, approvedIds, alwaysApproved, batch, executions,
                        inflight, turn>>
    /\ latest' = NoObservation
    /\ UNCHANGED <<hookVars, mcpVars, wsVars, pureVars, peerAlwaysApproved, messages, nextTurnId, undoStack, redoStack, queue,
                   nextRequestId, rounds, expiredIds>>

ExecApproval == \E sub \in ApprovalSubmissions : ProcessExecApproval(sub)

\* a running tool call of the current turn returns
ToolReturns ==
    \E w \in inflight :
        /\ w.kind = "tool"
        /\ w.turn = turn.id
        /\ turn.state = "Running"
        /\ w.call \in 1..Len(batch)
        /\ batch[w.call].status = "running"
        /\ Finished(w.call, "ok")
        /\ inflight' = inflight \ {w}
        /\ latest' = NoObservation
        /\ UNCHANGED <<hookVars, mcpVars, wsVars, pureVars, peerAlwaysApproved, loopState, messages, nextTurnId, undoStack, redoStack,
                       queue, pending, nextRequestId, alwaysApproved, rounds, executions,
                       approvedIds, expiredIds>>

RECURSIVE BufferedResults(_)
\* the results a concurrent batch buffered, in issue order
BufferedResults(calls) ==
    IF calls = <<>> THEN <<>>
    ELSE (IF Head(calls).serial THEN <<>> ELSE <<ToolMessage(Head(calls))>>)
             \o BufferedResults(Tail(calls))

\* every call of the batch has its result: buffered results are appended and
\* the loop re-enters selection
BatchCompletes ==
    /\ loopState = "Reasoning"
    /\ turn.state = "Running"
    /\ batch # <<>>
    /\ \A i \in 1..Len(batch) : batch[i].status = "done"
    /\ turn' = [turn EXCEPT !.messages = @ \o BufferedResults(batch)]
    /\ batch' = <<>>
    /\ inflight' = inflight \cup {LlmWork}
    /\ latest' = NoObservation
    /\ UNCHANGED <<hookVars, mcpVars, wsVars, pureVars, peerAlwaysApproved, loopState, messages, nextTurnId, undoStack, redoStack, queue,
                   pending, nextRequestId, alwaysApproved, rounds, executions, approvedIds,
                   expiredIds>>

\* turn lifecycle step 4: the outbound chains have run, the final content is
\* emitted and appended, the turn is completed and joins the history
TurnCompletes ==
    /\ loopState = "Responding"
    /\ LET done == [turn EXCEPT !.state = "Completed",
                                !.messages = Append(@, ChatMessage("assistant", turn.id, "", ""))]
       IN  /\ turn' = done
           /\ messages' = messages \o done.messages
           /\ undoStack' = Append(undoStack, done)
    /\ loopState' = "Idle"
    /\ latest' = NoObservation
    /\ UNCHANGED <<hookVars, mcpVars, wsVars, pureVars, peerAlwaysApproved, nextTurnId, redoStack, queue, pending, nextRequestId,
                   alwaysApproved, batch, inflight, rounds, executions, approvedIds,
                   expiredIds>>

\* the turn's root token is cancelled: the turn is marked Interrupted
Cancelled_StillRunning(t) == t

Cancelled(t) == [t EXCEPT !.state = "Interrupted"]

\* an approval request expires when its turn is interrupted
PendingAfterCancel_Kept(request) == request

PendingAfterCancel(request) == None

\* the turn under way, if any, is abandoned: its token is cancelled, its
\* approval request expires, what it had not appended is dropped.  Work that
\* cannot abort stays in flight until it returns.
Abandon ==
    /\ turn' = IF TurnActive(turn) THEN Cancelled(turn) ELSE turn
    /\ pending' = PendingAfterCancel(pending)
    /\ expiredIds' = IF IsSome(pending) THEN expiredIds \cup {Unwrap(pending).id}
                     ELSE expiredIds
    /\ batch' = <<>>
    /\ loopState' = "Idle"

Interrupt ==
    /\ is_control(interrupt)
    /\ loopState # "Idle"
    /\ Abandon
    /\ latest' = IF TurnActive(turn) THEN TurnInterrupted ELSE NoObservation
    /\ UNCHANGED <<hookVars, mcpVars, wsVars, pureVars, peerAlwaysApproved, messages, nextTurnId, undoStack, redoStack, queue,
                   nextRequestId, alwaysApproved, inflight, rounds, executions, approvedIds>>

\* the work of cancelled turns
CancelledWork == {w \in inflight : ~(w.turn = turn.id /\ TurnActive(turn))}

\* work of cancelled turns returns and its results are discarded; nothing
\* observes the order of the returns, they are taken together
CancelledWorkReturns ==
        /\ CancelledWork # {}
        /\ inflight' = inflight \ CancelledWork
        /\ latest' = NoObservation
        /\ UNCHANGED <<hookVars, mcpVars, wsVars, pureVars, peerAlwaysApproved, loopState, messages, turn, nextTurnId, undoStack,
                       redoStack, queue, pending, nextRequestId, alwaysApproved, batch,
                       rounds, executions, approvedIds, expiredIds>>

\* the message list Undo puts in place when it pops turn t
UndoMessages(t) == t.checkpoint.messages

\* what Undo pushes on the redo stack: the turn and the list it replaced
RedoEntry_Checkpoint(t, msgs) == [turn |-> t, messages |-> t.checkpoint.messages]

RedoEntry(t, msgs) == [turn |-> t, messages |-> msgs]

\* Undo: the last completed turn is popped, its checkpoint restored and the
\* turn pushed on the redo stack; with no completed turn nothing is restored
Undo ==
    /\ is_control(undo)
    /\ Abandon
    /\ IF undoStack # <<>>
       THEN LET t == undoStack[Len(undoStack)]
            IN  /\ messages' = UndoMessages(t)
                /\ undoStack' = SubSeq(undoStack, 1, Len(undoStack) - 1)
                /\ redoStack' = Append(redoStack, RedoEntry(t, messages))
       ELSE UNCHANGED <<messages, undoStack, redoStack>>
    /\ latest' = IF undoStack # <<>> THEN Replaced(messages) ELSE NoObservation
    /\ UNCHANGED <<hookVars, mcpVars, wsVars, pureVars, peerAlwaysApproved, nextTurnId, queue, nextRequestId, alwaysApproved, inflight,
                   rounds, executions, approvedIds>>

\* Redo: the turn undone last is replayed; with an empty stack nothing happens
Redo ==
    /\ is_control(redo)
    /\ IF redoStack # <<>>
       THEN LET entry == redoStack[Len(redoStack)]
            IN  /\ messages' = entry.messages
                /\ undoStack' = Append(undoStack, entry.turn)
                /\ redoStack' = SubSeq(redoStack, 1, Len(redoStack) - 1)
       ELSE UNCHANGED <<messages, undoStack, redoStack>>
    /\ latest' = NoObservation
    /\ UNCHANGED <<hookVars, mcpVars, wsVars, pureVars, peerAlwaysApproved, loopState, turn, nextTurnId, queue, pending, nextRequestId,
                   alwaysApproved, batch, inflight, rounds, executions, approvedIds,
                   expiredIds>>

SummaryMessage == ChatMessage("system", 0, "", "summary")

\* Compact: the history up to the checkpoint boundary of the current turn is
\* replaced by one system message; checkpoints already taken are untouched
Compact ==
    /\ is_control(compact)
    /\ messages # <<>>
    /\ messages' = <<SummaryMessage>>
    /\ latest' = NoObservation
    /\ UNCHANGED <<hookVars, mcpVars, wsVars, pureVars, peerAlwaysApproved, loopState, turn, nextTurnId, undoStack, redoStack, queue,
                   pending, nextRequestId, alwaysApproved, batch, inflight, rounds,
                   executions, approvedIds, expiredIds>>

\* the loop turns to an empty thread; the session (its always-approved set,
\* its waiting submissions) goes on
FreshThread ==
    /\ Abandon
    /\ messages' = <<>>
    /\ undoStack' = <<>>
    /\ redoStack' = <<>>
    /\ latest' = NoObservation
    /\ UNCHANGED <<hookVars, mcpVars, wsVars, pureVars, peerAlwaysApproved, nextTurnId, queue, nextRequestId, alwaysApproved, inflight,
                   rounds, executions, approvedIds>>

\* Clear empties the current thread
Clear == is_control(clear) /\ FreshThread

\* NewThread leaves the current thread for a new, empty one; threads left
\* behind are not tracked
NewThread == is_control(new_thread) /\ nextTurnId > 0 /\ FreshThread

\* the loop of another session processes an ExecApproval with always = true
\* for a tool it had gated: the tool joins that session's always-approved set
PeerAlwaysApproves ==
    \E tool \in ToolNames :
        /\ requires_approval(tool)
        /\ tool \notin peerAlwaysApproved
        /\ peerAlwaysApproved' = peerAlwaysApproved \cup {tool}
        /\ UNCHANGED <<hookVars, mcpVars, wsVars, pureVars, loopState, messages, turn, nextTurnId, undoStack,
                       redoStack, queue, pending, nextRequestId, alwaysApproved, batch,
                       inflight, rounds, executions, approvedIds, expiredIds, latest>>

NextAgent ==
    \/ UserInputStartsTurn
    \/ UserInputQueued
    \/ UserInputDequeued
    \/ LlmSelectsTools
    \/ LlmResponds
    \/ LlmFails
    \/ ToolCallRejected
    \/ ToolCallNeedsApproval
    \/ ToolCallExecutes
    \/ ExecApproval
    \/ ToolReturns
    \/ BatchCompletes
    \/ TurnCompletes
    \/ Interrupt
    \/ CancelledWorkReturns
    \/ Undo
    \/ Redo
    \/ Compact
    \/ Clear
    \/ NewThread
    \/ PeerAlwaysApproves

SpecAgent == Init /\ [][NextAgent]_vars

----------------------------------------------------------------------------
(* Properties of the hook pipeline *)

\* the primary content after the first k hooks of a log: the latest
\* modification among them, the event's own content when there is none
RECURSIVE ContentAfter(_, _, _)
ContentAfter(original, log, k) ==
    IF k = 0 THEN original
    ELSE IF log[k].outcome.kind = "Continue" /\ IsSome(log[k].outcome.modified)
         THEN Unwrap(log[k].outcome.modified)
         ELSE ContentAfter(original, log, k - 1)

Modifiers(log) ==
    {i \in 1..Len(log) :
        log[i].outcome.kind = "Continue" /\ IsSome(log[i].outcome.modified)}

\* C2: a chain run in which no hook rejects returns as modified the content
\* obtained by applying the hooks' modifications in list order, each hook
\* being given the content left by the hooks before it; it returns None
\* exactly when no hook modified the content (a rule hook that reports a
\* modification has changed the content it was given).
C2_ModifiedIsChainOfModifications ==
    (run.status = "done" /\ run.result.kind = "Continue") =>
        LET log == run.log
            original == extract_primary_content(run.event)
        IN  /\ Len(log) = Len(run.snapshot)
            /\ \A i \in 1..Len(log) :
                  /\ log[i].hook = run.snapshot[i].hook.name
                  /\ log[i].input = ContentAfter(original, log, i - 1)
                  /\ (i \in Modifiers(log) /\ run.snapshot[i].hook.kind = "rule")
                        => Unwrap(log[i].outcome.modified) # log[i].input
            /\ run.result.modified =
                  IF Modifiers(log) = {} THEN None
                  ELSE Some(ContentAfter(original, log, Len(log)))

\* a run that returned Continue after two hooks modified the content in turn
C2_Witness ==
    /\ run.status = "done"
    /\ run.result.kind = "Continue"
    /\ Cardinality(Modifiers(run.log)) >= 2
    /\ IsSome(run.result.modified)

\* the rule hook rejects the content: a reject reason is configured and the
\* guard is absent or matches
RuleRejects(hook, content) ==
    /\ hook.kind = "rule"
    /\ IsSome(hook.reject_reason)
    /\ (IsSome(hook.when_regex) => IsMatch(Unwrap(hook.when_regex), content))

\* C3: once a hook rejects (a rule hook with a reject reason whose guard
\* matches, or any hook returning Reject), the run is over with
\* HookError::Rejected carrying that reason and the rejecting hook is the
\* last one executed: no later hook, webhook hooks included, sees the event.
C3_RejectStopsChain ==
    \A i \in 1..Len(run.log) :
        LET hook == run.snapshot[i].hook
            entry == run.log[i]
        IN  (entry.outcome.kind = "Reject" \/ RuleRejects(hook, entry.input)) =>
                /\ i = Len(run.log)
                /\ run.status = "done"
                /\ run.result.kind = "Rejected"
                /\ run.result.reason = entry.outcome.reason
                /\ hook.kind = "rule" => run.result.reason = Unwrap(hook.reject_reason)

\* a rule hook rejected while a webhook hook was still to come in the chain
C3_Witness ==
    /\ run.status = "done"
    /\ run.result = RunResult("Rejected", None, "forbidden content", <<>>)
    /\ Len(run.log) >= 2
    /\ \E j \in (Len(run.log) + 1)..Len(run.snapshot) :
          run.snapshot[j].hook.kind = "webhook"

\* the configuration a registered bundle hook was compiled from
ConfigOf(hook) ==
    CHOOSE c \in RuleConfigs \cup InvalidRuleConfigs
                    \cup WebhookConfigs \cup InvalidWebhookConfigs :
        ScopedName("workspace", c.name) = hook.name

IsBundled(hook) == hook.kind \in {"rule", "webhook"}

\* the hook was registered with the default priority of its kind
HasDefaultPriority(hook) ==
    \/ hook.kind = "audit"
    \/ IsBundled(hook) /\ ConfigOf(hook).priority = None

KindRank(hook) ==
    CASE hook.kind = "audit" -> 1
      [] hook.kind = "rule" -> 2
      [] OTHER -> 3

\* C4: every hook point's list is in ascending priority, registration order
\* among equal priorities; a configured priority is the one the hook is
\* listed with; hooks left at their default priorities are listed audit hook
\* (25) before rule hooks (100) before outbound webhook hooks (300); and a
\* run executes the hooks of its snapshot in list order.
C4_PriorityThenRegistrationOrder ==
    /\ \A p \in ALL_HOOK_POINTS :
          \A i, j \in 1..Len(registry[p]) :
              LET a == registry[p][i]
                  b == registry[p][j]
              IN  /\ i < j => \/ a.priority < b.priority
                              \/ a.priority = b.priority /\ a.seq < b.seq
                  /\ (IsBundled(a.hook) /\ IsSome(ConfigOf(a.hook).priority))
                        => a.priority = Unwrap(ConfigOf(a.hook).priority)
                  /\ (HasDefaultPriority(a.hook) /\ HasDefaultPriority(b.hook)
                         /\ KindRank(a.hook) < KindRank(b.hook)) => i < j
    /\ \A i \in 1..Len(run.log) : run.log[i].hook = run.snapshot[i].hook.name

\* a list holding the audit hook, then a rule hook registered at the audit
\* hook's priority after it, and a run that executed both in that order
C4_Witness ==
    /\ Len(registry["beforeInbound"]) >= 3
    /\ registry["beforeInbound"][1].hook.kind = "audit"
    /\ registry["beforeInbound"][2].hook.kind = "rule"
    /\ registry["beforeInbound"][2].priority = registry["beforeInbound"][1].priority
    /\ registry["beforeInbound"][3].hook.kind = "webhook"
    /\ Len(run.log) >= 2
    /\ run.snapshot = registry["beforeInbound"]

Failed(entry) == entry.outcome.kind \in {"error", "timeout"}

\* C5: a hook that times out or fails is passed over when its failure mode is
\* FailOpen (the next hook is given the same content, and the failure does
\* not end the run); when it is FailClosed the run ends there with
\* HookError::HookFailed naming the hook.  A rule hook compiled from a
\* configuration without failure_mode is FailOpen.
C5_FailureModeDecides ==
    /\ \A i \in 1..Len(run.log) :
          LET hook == run.snapshot[i].hook
              entry == run.log[i]
          IN  Failed(entry) =>
                 IF hook.failure_mode = "FailOpen"
                 THEN /\ i < Len(run.log) => run.log[i + 1].input = entry.input
                      /\ i = Len(run.log) =>
                            /\ run.content = entry.input
                            /\ run.result.kind \in {"none", "Continue"}
                 ELSE /\ i = Len(run.log)
                      /\ run.status = "done"
                      /\ run.result = RunResult("HookFailed", None, entry.outcome.kind,
                                                hook.name)
    /\ \A p \in ALL_HOOK_POINTS :
          \A i \in 1..Len(registry[p]) :
              LET hook == registry[p][i].hook
              IN  (hook.kind = "rule" /\ ConfigOf(hook).failure_mode = None)
                      => hook.failure_mode = "FailOpen"

\* a FailOpen hook timed out and was passed over (the next hook ran on the
\* same content), and a FailClosed hook then failed and ended the run
C5_Witness ==
    /\ run.status = "done"
    /\ run.result.kind = "HookFailed"
    /\ run.snapshot[Len(run.log)].hook.failure_mode = "FailClosed"
    /\ \E i \in 1..(Len(run.log) - 1) :
          /\ run.log[i].outcome.kind = "timeout"
          /\ run.snapshot[i].hook.failure_mode = "FailOpen"
          /\ run.log[i + 1].input = run.log[i].input

\* ---------------------------------------------------------------------------
\* Properties of the agent loop
\* ---------------------------------------------------------------------------

Top(stack) == stack[Len(stack)]

\* C1: a tool whose requires_approval is true (the built-in http tool is one)
\* and that is not always-approved is never executed before an ExecApproval
\* with approved = true and the id of the call's approval request has been
\* processed; while the request is pending the call is not in flight.
C1_NoExecuteBeforeApproval ==
    /\ \A e \in executions :
           (e.tool = "http" \/ requires_approval(e.tool)) /\ ~e.always
               => e.request \in approvedIds
    /\ IsSome(pending) =>
           /\ Unwrap(pending).id \notin approvedIds
           /\ Work("tool", Unwrap(pending).turn, Unwrap(pending).call) \notin inflight

\* http has executed, on the approval of its request
C1_Witness ==
    \E e \in executions :
        e.tool = "http" /\ ~e.always /\ e.request \in approvedIds

\* C6: at most one turn is active: a turn begins only in Idle with no turn
\* under way, and a UserInput arriving in Reasoning, AwaitingApproval or
\* Responding starts no turn and appends no message, to the thread or to the
\* turn under way.
C6_UserInputWaitsForIdle ==
    [][/\ turn'.id # turn.id => loopState = "Idle" /\ ~TurnActive(turn)
       /\ loopState # "Idle" => TurnActive(turn)
       /\ (UserInputStartsTurn \/ UserInputQueued) /\ loopState # "Idle"
              => UNCHANGED <<messages, turn, loopState>>]_vars

\* a UserInput waits while the turn under way awaits an approval
C6_Witness ==
    /\ Len(queue) = 1
    /\ loopState = "AwaitingApproval"
    /\ TurnActive(turn)

\* C7: an Interrupt processed in a non-Idle state moves the loop to Idle and
\* marks the current turn Interrupted; the turn's checkpoint is unchanged and
\* nothing is appended, to the thread or to the turn, by the Interrupt or by
\* the cancelled work that returns after it.
C7_InterruptDrainsToIdle ==
    [][/\ Interrupt =>
              /\ loopState' = "Idle"
              /\ turn'.id = turn.id
              /\ turn'.state = "Interrupted"
              /\ turn'.checkpoint = turn.checkpoint
              /\ turn'.messages = turn.messages
              /\ UNCHANGED <<messages, undoStack>>
       /\ turn.state = "Interrupted" /\ turn'.id = turn.id => turn' = turn
       /\ CancelledWorkReturns => UNCHANGED <<messages, turn, loopState>>]_vars

\* a turn was interrupted while one of its tool calls was running
C7_Witness ==
    /\ turn.state = "Interrupted"
    /\ loopState = "Idle"
    /\ \E w \in inflight : w.kind = "tool" /\ w.turn = turn.id

\* C8: with a completed turn to pop, Undo puts in place the message list of
\* the checkpoint taken before the last completed turn; a Redo that follows
\* the Undo at once puts back exactly the list the Undo replaced.
C8_UndoThenRedoRestores ==
    [][/\ Undo /\ undoStack # <<>> =>
              messages' = Top(undoStack).checkpoint.messages
       /\ Redo /\ latest.type = "Undo" => messages' = latest.messages]_vars

\* the second of two completed turns has just been undone
C8_Witness ==
    /\ latest.type = "Undo"
    /\ messages # <<>>
    /\ latest.messages # messages
    /\ redoStack # <<>>

\* C9: every UserInput submitted empties the redo stack, so that a Redo
\* after Undo then UserInput changes nothing.
C9_UserInputClearsRedo ==
    [][/\ UserInputStartsTurn \/ UserInputQueued => redoStack' = <<>>
       /\ Redo /\ latest.type = "UserInput" =>
              UNCHANGED <<messages, undoStack, redoStack, turn, loopState>>]_vars

\* a UserInput has just been submitted after an Undo
C9_Witness ==
    /\ latest.type = "UserInput"
    /\ latest.redo # <<>>
    /\ redoStack = <<>>

\* C10: when a turn is interrupted while its approval request is pending,
\* the request expires; an ExecApproval with the id of an expired request,
\* whatever its answer, executes no tool and resumes no turn.
C10_ExpiredApprovalIsIgnored ==
    [][/\ Interrupt /\ IsSome(pending) =>
              pending' = None /\ Unwrap(pending).id \in expiredIds'
       /\ \A e \in executions' : e.request \notin expiredIds'
       /\ \A id \in expiredIds, selection \in ApprovalSelections :
              ProcessExecApproval(ApprovalSubmission(id, selection)) =>
                  UNCHANGED <<executions, turn, loopState, batch, inflight,
                              alwaysApproved>>]_vars

\* the turn was interrupted while it awaited an approval that never came
C10_Witness ==
    /\ turn.state = "Interrupted"
    /\ pending = None
    /\ \E id \in expiredIds :
           id \notin approvedIds /\ \A e \in executions : e.request # id

\* C11: when the pending request is answered with ExecApproval{approved:
\* false}, the call's result is Denied and execute is not invoked for it,
\* then or later; the turn is not Failed: it is Running and the loop is back
\* in Reasoning.
C11_DenialIsNotFatal ==
    [][/\ \A id \in 1..nextRequestId :
              LET sub == approval(id, FALSE)
              IN  Resolves(sub) /\ ProcessExecApproval(sub) =>
                      LET call == Unwrap(pending).call
                      IN  /\ batch'[call].status = "done"
                          /\ batch'[call].result = "Denied"
                          /\ UNCHANGED <<executions, inflight, approvedIds>>
                          /\ turn'.id = turn.id
                          /\ turn'.state = "Running"
                          /\ loopState' = "Reasoning"
                          /\ pending' = None
       /\ \A i \in 1..Len(batch) :
              batch[i].status = "done" /\ batch' # <<>> => batch'[i] = batch[i]]_vars

\* the only request issued was denied, and the turn goes on
C11_Witness ==
    /\ pending = None
    /\ nextRequestId = 1
    /\ approvedIds = {}
    /\ expiredIds = {}
    /\ turn.state = "Running"
    /\ \E i \in 1..Len(batch) : batch[i].result = "Denied" /\ batch[i].tool = "http"

ConcurrentBatchRunning ==
    /\ batch # <<>>
    /\ \A i \in 1..Len(batch) : ~batch[i].serial
    /\ \E i \in 1..Len(batch) : batch[i].status # "done"

\* C13: the calls of a batch stand in the order the model issued them; while
\* a concurrent batch has a call that has not completed, no result of it is
\* appended to the turn, whichever calls have completed; when all have, the
\* results are appended in the order of issue.
C13_ConcurrentResultsInIssueOrder ==
    [][/\ \A tool_calls \in ToolSelections :
              SelectsTools(tool_calls) =>
                  /\ Len(batch') = Len(tool_calls)
                  /\ \A i \in 1..Len(tool_calls) : batch'[i].tool = tool_calls[i]
       /\ ConcurrentBatchRunning /\ turn'.id = turn.id =>
              turn'.messages = turn.messages
       /\ BatchCompletes /\ ~batch[1].serial =>
              /\ Len(turn'.messages) = Len(turn.messages) + Len(batch)
              /\ SubSeq(turn'.messages, 1, Len(turn.messages)) = turn.messages
              /\ \A i \in 1..Len(batch) :
                     LET m == turn'.messages[Len(turn.messages) + i]
                     IN  /\ m.role = "tool"
                         /\ m.tool = batch[i].tool
                         /\ m.result = batch[i].result]_vars

\* the second call of a concurrent batch completed first; nothing is appended
C13_Witness ==
    /\ ConcurrentBatchRunning
    /\ Len(batch) = 2
    /\ batch[1].status = "running"
    /\ batch[2].status = "done"
    /\ batch[2].result = "ok"
    /\ Len(turn.messages) = 1

----------------------------------------------------------------------------
(***************************************************************************)
(* The MCP client.  list_tools reads the cache under the read lock,        *)
(* releases it, sends tools/list, and takes the write lock only to store   *)
(* the answer; calls on one client may overlap.  create_tools is a         *)
(* list_tools whose result is wrapped (wrap = TRUE).                       *)
(***************************************************************************)
Wrapped(wrap, tools) ==
    IF wrap THEN [i \in 1..Len(tools) |-> McpToolWrapper(tools[i])] ELSE wrappers

FirstSettled(tools) == IF IsSome(settled) THEN settled ELSE Some(tools)

\* list_tools finds the cache filled and returns a clone of it
ListToolsCached(wrap) ==
    /\ IsSome(tools_cache)
    /\ lastReturn' = ListReturn(TRUE, Unwrap(tools_cache), FALSE, settled, cleared)
    /\ settled' = FirstSettled(Unwrap(tools_cache))
    /\ cleared' = FALSE
    /\ wrappers' = Wrapped(wrap, Unwrap(tools_cache))
    /\ UNCHANGED <<hookVars, agentVars, wsVars, pureVars, tools_cache, next_id, server_tools, list_calls,
                   decision>>

\* list_tools finds the cache empty, takes a request id and sends tools/list
ListToolsRequest(wrap) ==
    /\ ~IsSome(tools_cache)
    /\ next_id <= MaxRequests
    /\ list_calls' = list_calls \cup {ListCall(next_id, wrap, settled, cleared, "sent", <<>>, FALSE)}
    /\ next_id' = next_id + 1
    /\ cleared' = FALSE
    /\ UNCHANGED <<hookVars, agentVars, wsVars, pureVars, tools_cache, server_tools, wrappers, decision,
                   settled, lastReturn>>

\* the server answers a tools/list request with its tool list of that moment
ListToolsAnswered ==
    \E call \in list_calls :
        /\ call.pc = "sent"
        /\ list_calls' = (list_calls \ {call}) \cup
                         {ListCall(call.id, call.wrap, call.after, call.first, "store", server_tools,
                                   call.overwritten)}
        /\ UNCHANGED <<hookVars, agentVars, wsVars, pureVars, tools_cache, next_id, server_tools, wrappers,
                       decision, settled, cleared, lastReturn>>

\* a failing list_tools that caches an empty tool list
ListToolsFails_CachesEmptyList ==
    \E call \in list_calls :
        /\ call.pc = "sent"
        /\ list_calls' = list_calls \ {call}
        /\ tools_cache' = Some(<<>>)
        /\ lastReturn' = ListReturn(FALSE, <<>>, TRUE, call.after, call.first)
        /\ UNCHANGED <<hookVars, agentVars, wsVars, pureVars, next_id, server_tools, wrappers,
                       decision, settled, cleared>>

\* the request fails, or the response carries an error or no valid result:
\* list_tools returns Err and leaves the cache alone
ListToolsFails ==
    \E call \in list_calls :
        /\ call.pc = "sent"
        /\ list_calls' = list_calls \ {call}
        /\ lastReturn' = ListReturn(FALSE, <<>>, TRUE, call.after, call.first)
        /\ UNCHANGED <<hookVars, agentVars, wsVars, pureVars, tools_cache, next_id, server_tools, wrappers,
                       decision, settled, cleared>>

\* list_tools stores the answer in the cache and returns it
ListToolsStores ==
    \E call \in list_calls :
        /\ call.pc = "store"
        /\ tools_cache' = Some(call.tools)
        /\ list_calls' = {ListCall(other.id, other.wrap, other.after, other.first, other.pc,
                                   other.tools, TRUE) : other \in list_calls \ {call}}
        /\ lastReturn' = ListReturn(TRUE, call.tools, TRUE, call.after, call.first)
        /\ settled' = FirstSettled(call.tools)
        /\ wrappers' = Wrapped(call.wrap, call.tools)
        /\ UNCHANGED <<hookVars, agentVars, wsVars, pureVars, next_id, server_tools, decision, cleared>>

ClearCache ==
    /\ tools_cache' = None
    /\ settled' = None
    /\ cleared' = TRUE
    /\ UNCHANGED <<hookVars, agentVars, wsVars, pureVars, next_id, server_tools, list_calls, wrappers,
                   decision, lastReturn>>

\* call_tool takes a request id; its response touches no client state
CallTool ==
    /\ next_id <= MaxRequests
    /\ next_id' = next_id + 1
    /\ UNCHANGED <<hookVars, agentVars, wsVars, pureVars, tools_cache, server_tools, list_calls, wrappers,
                   decision, settled, cleared, lastReturn>>

\* the server's tool list changes
ServerChanges ==
    \E tools \in ServerLists \ {server_tools} :
        /\ server_tools' = tools
        /\ UNCHANGED <<hookVars, agentVars, wsVars, pureVars, tools_cache, next_id, list_calls, wrappers,
                       decision, settled, cleared, lastReturn>>

\* the dispatcher asks a wrapped MCP tool whether it requires approval
WrapperAsked ==
    \E i \in 1..Len(wrappers) :
        /\ decision' = Some([tool |-> wrappers[i].tool,
                             requires_approval |-> McpToolWrapper_requires_approval(wrappers[i])])
        /\ UNCHANGED <<hookVars, agentVars, wsVars, pureVars, tools_cache, next_id, server_tools, list_calls,
                       wrappers, settled, cleared, lastReturn>>

ListTools == \E wrap \in BOOLEAN : ListToolsCached(wrap) \/ ListToolsRequest(wrap)

NextMcp ==
    \/ ListTools
    \/ ListToolsAnswered
    \/ ListToolsFails
    \/ ListToolsStores
    \/ ClearCache
    \/ CallTool
    \/ ServerChanges
    \/ WrapperAsked

SpecMcp == Init /\ [][NextMcp]_vars

\* C15: a wrapped MCP tool requires approval when its annotations carry
\* destructive_hint = true, and does not when it has no annotations or
\* destructive_hint is false; the other two hints make no difference.
C15_DestructiveHintAloneGates ==
    IsSome(decision) =>
        LET asked == Unwrap(decision)
            annotations == asked.tool.annotations
        IN  /\ (IsSome(annotations) /\ Unwrap(annotations).destructive_hint)
                  => asked.requires_approval
            /\ ~IsSome(annotations) => ~asked.requires_approval
            /\ (IsSome(annotations) /\ ~Unwrap(annotations).destructive_hint)
                  => ~asked.requires_approval

C15_Witness ==
    /\ IsSome(decision)
    /\ IsSome(Unwrap(decision).tool.annotations)
    /\ ~Unwrap(Unwrap(decision).tool.annotations).destructive_hint
    /\ Unwrap(Unwrap(decision).tool.annotations).side_effects_hint
    /\ Unwrap(Unwrap(decision).tool.annotations).read_only_hint
    /\ ~Unwrap(decision).requires_approval

\* C16: once a list_tools call has succeeded, a list_tools call started later
\* and before any clear_cache returns that same list and sends no tools/list
\* request; the first list_tools started after a clear_cache sends one.
C16_CachedUntilCleared ==
    /\ IsSome(lastReturn.after) =>
           /\ lastReturn.ok
           /\ Some(lastReturn.tools) = lastReturn.after
           /\ ~lastReturn.requested
    /\ lastReturn.first => lastReturn.requested

----------------------------------------------------------------------------
(***************************************************************************)
(* The workspace's writes.  Each one is a chain of repository calls with a *)
(* suspension point at every call, so writes may interleave with each      *)
(* other and with reads; a call that returns Err ends the write there.     *)
(***************************************************************************)
\* get_or_create_document returns the document, creating it when missing,
\* and the write computes the content it will store
BeginWrite(kind, doc, entry, new_content) ==
    /\ nextWrite < MaxWrites
    /\ nextWrite' = nextWrite + 1
    /\ documents' = IF IsSome(documents[doc]) THEN documents
                    ELSE [documents EXCEPT ![doc] = MemoryDocument_new]
    /\ writes' = writes \cup {Write(nextWrite + 1, kind, doc, entry, Content(documents[doc]),
                                    new_content, "update", <<>>, 0)}
    /\ UNCHANGED <<hookVars, agentVars, mcpVars, pureVars, chunks, held, returned>>

AppendMemory ==
    \E entry \in Entries :
        BeginWrite("append_memory", "memory", entry,
                   append_memory_content(Content(documents["memory"]), entry))

AppendDailyLog ==
    \E entry \in Entries, timestamp \in Timestamps :
        BeginWrite("append_daily_log", "daily_log", entry,
                   append_daily_log_content(Content(documents["daily_log"]), timestamp, entry))

UpdateDocument ==
    \E doc \in Docs, content \in Replacements :
        BeginWrite("update_document", doc, content, content)

\* a write returns Ok(()) or Err
Returned(write, ok) ==
    [id |-> write.id, kind |-> write.kind, doc |-> write.doc, entry |-> write.entry, ok |-> ok]

Moved(write, pc, todo, index) ==
    Write(write.id, write.kind, write.doc, write.entry, write.read, write.new_content,
          pc, todo, index)

\* repo.update_document stores the write's content
UpdateContent(write) ==
    /\ write \in writes
    /\ write.pc = "update"
    /\ documents' = [documents EXCEPT ![write.doc] = Some(write.new_content)]
    /\ held' = [held EXCEPT ![write.doc] = @ \cup {write.new_content}]
    /\ writes' = (writes \ {write}) \cup {Moved(write, "get", <<>>, 0)}
    /\ UNCHANGED <<hookVars, agentVars, mcpVars, pureVars, chunks, nextWrite, returned>>

\* reindex_document reads the document back and chunks its content
ReindexGets(write) ==
    /\ write \in writes
    /\ write.pc = "get"
    /\ writes' = (writes \ {write}) \cup
                 {Moved(write, "delete",
                        chunk_document(Content(documents[write.doc]), ChunkConfig_default), 0)}
    /\ UNCHANGED <<hookVars, agentVars, mcpVars, pureVars, documents, chunks, nextWrite, held, returned>>

\* reindex_document deletes the document's chunks; with nothing to insert
\* the write returns Ok
DeleteChunks(write) ==
    /\ write \in writes
    /\ write.pc = "delete"
    /\ chunks' = [chunks EXCEPT ![write.doc] = <<>>]
    /\ writes' = IF write.todo = <<>> THEN writes \ {write}
                 ELSE (writes \ {write}) \cup {Moved(write, "insert", write.todo, 0)}
    /\ returned' = IF write.todo = <<>> THEN returned \cup {Returned(write, TRUE)} ELSE returned
    /\ UNCHANGED <<hookVars, agentVars, mcpVars, pureVars, documents, nextWrite, held>>

\* reindex_document inserts the next chunk; the workspace of Workspace::new
\* has no embedding provider, so the embedding is None; after the last
\* chunk the write returns Ok
InsertChunk(write) ==
    /\ write \in writes
    /\ write.pc = "insert"
    /\ chunks' = [chunks EXCEPT ![write.doc] =
                     Append(@, MemoryChunk(write.index, Head(write.todo), None))]
    /\ writes' = IF Tail(write.todo) = <<>> THEN writes \ {write}
                 ELSE (writes \ {write}) \cup
                      {Moved(write, "insert", Tail(write.todo), write.index + 1)}
    /\ returned' = IF Tail(write.todo) = <<>> THEN returned \cup {Returned(write, TRUE)}
                   ELSE returned
    /\ UNCHANGED <<hookVars, agentVars, mcpVars, pureVars, documents, nextWrite, held>>

\* the repository call the write is at returns Err: the write returns it
WriteFails(write) ==
    /\ write \in writes
    /\ writes' = writes \ {write}
    /\ returned' = returned \cup {Returned(write, FALSE)}
    /\ UNCHANGED <<hookVars, agentVars, mcpVars, pureVars, documents, chunks, nextWrite, held>>

\* what a search, or any other read of a document's chunks, finds when it
\* runs now
ReadChunks(doc) == chunks[doc]

WriteSteps ==
    \E write \in writes :
        \/ UpdateContent(write)
        \/ ReindexGets(write)
        \/ DeleteChunks(write)
        \/ InsertChunk(write)
        \/ WriteFails(write)

NextWorkspace ==
    \/ AppendMemory
    \/ AppendDailyLog
    \/ UpdateDocument
    \/ WriteSteps

SpecWorkspace == Init /\ [][NextWorkspace]_vars

IsPrefix(s, t) == Len(s) <= Len(t) /\ SubSeq(t, 1, Len(s)) = s

\* (chunk_index, content) of the stored rows, in insertion order
Stored(rows) == [i \in 1..Len(rows) |-> <<rows[i].chunk_index, rows[i].content>>]

\* the complete chunk set of a content: chunk i of it under index i - 1
Complete(content) ==
    LET parts == chunk_document(content, ChunkConfig_default)
    IN  [i \in 1..Len(parts) |-> <<i - 1, parts[i]>>]

Writing(doc) == \E write \in writes : write.doc = doc

\* C17: append_memory turns empty memory content into the entry and
\* non-empty content c into c, two newlines, the entry (when no other write
\* came between the call's read and its write).
C17_AppendMemoryJoinsWithBlankLine ==
    [][\A write \in writes :
          (/\ UpdateContent(write)
           /\ write.kind = "append_memory"
           /\ write.read = Content(documents["memory"]))
          => Content(documents'["memory"]) =
                 IF write.read = <<>> THEN write.entry
                 ELSE write.read \o <<"\n", "\n">> \o write.entry]_vars

C17_Witness ==
    /\ writes = {}
    /\ Content(documents["memory"]) = <<"x", "\n", "\n", "y">>
    /\ Stored(chunks["memory"]) = Complete(<<"x", "\n", "\n", "y">>)

\* C18: a daily log only grows: at every step its content is a prefix of
\* its content after the step.
C18_DailyLogOnlyGrows ==
    [][IsPrefix(Content(documents["daily_log"]), Content(documents'["daily_log"]))]_vars

\* C19: while no write to a document is under way, its stored chunk_index
\* values are 0..n-1, each once, n being the number of chunks of its content.
C19_IndexesAreContiguous ==
    \A doc \in Docs :
        ~Writing(doc) =>
            LET n == Len(chunk_document(Content(documents[doc]), ChunkConfig_default))
            IN  /\ Len(chunks[doc]) = n
                /\ {chunks[doc][i].chunk_index : i \in 1..Len(chunks[doc])} = 0..(n - 1)

\* C20: whenever a read of a document's chunks runs, during a write or after
\* one that failed, it finds a complete chunk set: that of the content the
\* document holds (the new one) or that of a content it held before (an old one).
C20_ChunksReplacedAtomically ==
    \A doc \in Docs : Stored(ReadChunks(doc)) \in {Complete(content) : content \in held[doc]}

----------------------------------------------------------------------------
(***************************************************************************)
(* The system prompt: documents are written with update_document (or, for  *)
(* the daily logs, appended to) and system_prompt reads them.              *)
(***************************************************************************)
\* a document system_prompt reads is written
PromptDocumentWritten ==
    \E source \in PromptSourceSet, content \in PromptContents :
        /\ promptDocs' = [promptDocs EXCEPT ![source] = Some(content)]
        /\ prompt' = None
        /\ UNCHANGED <<coreVars, cliVars, searchVars, parseVars, submissionVars, ruleVars, bundleVars>>

\* system_prompt runs; any of its reads may return Err; daily_log creates a
\* daily log that is missing
SystemPrompt ==
    \E failed \in SUBSET PromptSourceSet :
        /\ prompt' = Some(PromptResult(system_prompt_result(promptDocs, failed), failed))
        /\ promptDocs' = [source \in PromptSourceSet |->
                             IF /\ source \in {"today", "yesterday"}
                                /\ source \notin failed
                                /\ ~IsSome(promptDocs[source])
                             THEN MemoryDocument_new
                             ELSE promptDocs[source]]
        /\ UNCHANGED <<coreVars, cliVars, searchVars, parseVars, submissionVars, ruleVars, bundleVars>>

NextPrompt ==
    \/ PromptDocumentWritten
    \/ SystemPrompt

SpecPrompt == Init /\ [][NextPrompt]_vars

RECURSIVE Flat(_)
Flat(seqs) == IF seqs = <<>> THEN <<>> ELSE Head(seqs) \o Flat(Tail(seqs))

\* the sources whose document was read and has content, in prompt order
Contributing(docs, failed) ==
    LET Contributes(source) == source \notin failed /\ Content(docs[source]) # <<>>
    IN  SelectSeq(PromptSources, Contributes)

\* C21: the system prompt is the parts of the contributing documents
\* (header, blank line, content) in the order AGENTS, SOUL, USER, IDENTITY,
\* today's log, yesterday's log, with one `---` separator between two
\* neighbours and none elsewhere; a missing or empty document contributes
\* nothing, and with no contributing document the prompt is empty.
C21_PromptJoinsContributingParts ==
    IsSome(prompt) =>
        LET contributing == Contributing(promptDocs, Unwrap(prompt).failed)
            n == Len(contributing)
        IN  Unwrap(prompt).result =
                Flat([i \in 1..(IF n = 0 THEN 0 ELSE 2 * n - 1) |->
                         IF i % 2 = 1
                         THEN <<Header(contributing[(i + 1) \div 2]), "\n\n">>
                              \o Unwrap(promptDocs[contributing[(i + 1) \div 2]])
                         ELSE <<"\n\n---\n\n">>])

C21_Witness ==
    /\ IsSome(prompt)
    /\ promptDocs["Soul"] = Some(<<>>)
    /\ promptDocs["User"] = None
    /\ Unwrap(prompt).result =
           <<"## Agent Instructions", "\n\n", "a", "\n\n---\n\n", "## Today's Notes", "\n\n", "a">>

----------------------------------------------------------------------------
(***************************************************************************)
(* memory_search: one call at a time is followed from its parameters to    *)
(* its output.                                                             *)
(***************************************************************************)
\* the tool runs on a workspace with or without an embedding provider; the
\* store ranks the chunks for the query
MemorySearch ==
    /\ search = None
    /\ \E embeddings \in BOOLEAN, answers \in SearchAnswers, lexical \in Rankings,
          vector \in Rankings, limit \in SearchLimits :
          /\ embeddings \/ answers.embed = "ok"
          /\ search' = Some([embeddings |-> embeddings, answers |-> answers,
                             lexical |-> lexical, vector |-> vector, limit |-> limit,
                             output |-> MemorySearchTool_execute(embeddings, answers,
                                                                 lexical, vector, limit)])
    /\ UNCHANGED <<coreVars, cliVars, promptVars, parseVars, submissionVars, ruleVars, bundleVars>>

\* the caller takes the output
MemorySearchReturns ==
    /\ search # None
    /\ search' = None
    /\ UNCHANGED <<coreVars, cliVars, promptVars, parseVars, submissionVars, ruleVars, bundleVars>>

NextSearch ==
    \/ MemorySearch
    \/ MemorySearchReturns

SpecSearch == Init /\ [][NextSearch]_vars

\* the search of the call that is being followed failed
SearchFailed ==
    /\ IsSome(search)
    /\ \/ Unwrap(search).embeddings /\ Unwrap(search).answers.embed = "err"
       \/ Unwrap(search).answers.query = "err"

\* C22: when a workspace search fails (the embedding provider fails to embed
\* the query, or the repository query fails), the search yields an empty
\* result list rather than an error.
C22_FailedSearchYieldsEmptyList ==
    SearchFailed => /\ Unwrap(search).output.ok
                    /\ Unwrap(search).output.results = <<>>

\* the limit K the followed call searches with
SearchK == Min(UnwrapOr(Unwrap(search).limit, 5), 20)

\* the chunks that are in at least one candidate list of the followed call
SearchCandidates == Range(Unwrap(search).lexical) \cup Range(Unwrap(search).vector)

\* the sum of 1/(60 + r) over the lists that rank the chunk at r, scaled
FusedScore(chunk) ==
    LET Reciprocal(ranking) ==
            IF chunk \in Range(ranking)
            THEN ScoreScale \div (60 + (CHOOSE r \in DOMAIN ranking : ranking[r] = chunk))
            ELSE 0
    IN  Reciprocal(Unwrap(search).lexical) + Reciprocal(Unwrap(search).vector)

\* C23: a hybrid search with limit K on a workspace with an embedding
\* provider scores every chunk by the sum of 1/(60 + r) over the lexical and
\* the vector list that rank it, and returns the chunks sorted by that score
\* descending, the K best of them at most.
C23_FusedByReciprocalRank ==
    (IsSome(search) /\ Unwrap(search).embeddings /\ Unwrap(search).output.ok) =>
        LET out == Unwrap(search).output.results
        IN  /\ Len(out) = Min(SearchK, Cardinality(SearchCandidates))
            /\ \A i \in DOMAIN out :
                  /\ out[i].chunk \in SearchCandidates
                  /\ out[i].score = FusedScore(out[i].chunk)
            /\ \A i, j \in DOMAIN out :
                  i < j => /\ out[i].chunk # out[j].chunk
                           /\ out[i].score >= out[j].score
            /\ \A chunk \in SearchCandidates \ {out[i].chunk : i \in DOMAIN out} :
                  \A i \in DOMAIN out : out[i].score >= FusedScore(chunk)

\* chunk 1 is ranked 1st lexically and 3rd by vector, chunk 2 4th and 1st;
\* with limit 1 the search returns chunk 1
C23_Witness ==
    /\ IsSome(search)
    /\ Unwrap(search).embeddings
    /\ Unwrap(search).limit = Some(1)
    /\ Len(Unwrap(search).lexical) = 4
    /\ Len(Unwrap(search).vector) = 4
    /\ Unwrap(search).lexical[1] = 1
    /\ Unwrap(search).vector[3] = 1
    /\ Unwrap(search).lexical[4] = 2
    /\ Unwrap(search).vector[1] = 2
    /\ Unwrap(search).output.ok
    /\ Len(Unwrap(search).output.results) = 1
    /\ Unwrap(search).output.results[1].chunk = 1

\* C24: a result is a hybrid match exactly when its chunk is in both the
\* lexical and the vector candidate list; on a workspace without an
\* embedding provider no result is a hybrid match.
C24_HybridIffInBothLists ==
    (IsSome(search) /\ Unwrap(search).output.ok) =>
        \A i \in DOMAIN Unwrap(search).output.results :
            LET result == Unwrap(search).output.results[i]
            IN  result.is_hybrid_match <=>
                    /\ Unwrap(search).embeddings
                    /\ result.chunk \in Range(Unwrap(search).lexical)
                    /\ result.chunk \in Range(Unwrap(search).vector)

\* one search returns a hybrid match next to a chunk only one list ranks
C24_Witness ==
    /\ IsSome(search)
    /\ Unwrap(search).embeddings
    /\ Unwrap(search).output.ok
    /\ \E i, j \in DOMAIN Unwrap(search).output.results :
          /\ Unwrap(search).output.results[i].is_hybrid_match
          /\ ~Unwrap(search).output.results[j].is_hybrid_match
          /\ Unwrap(search).output.results[j].chunk \notin Range(Unwrap(search).lexical)

----------------------------------------------------------------------------
(***************************************************************************)
(* parse_plan: one model response at a time is followed from its text to   *)
(* the plan or the error.                                                  *)
(***************************************************************************)
ParsePlan ==
    /\ planned = None
    /\ \E content \in Responses :
          planned' = Some([content |-> content, result |-> parse_plan(content)])
    /\ UNCHANGED <<coreVars, cliVars, promptVars, searchVars, submissionVars, ruleVars, bundleVars>>

\* the caller takes the plan or the error
ParsePlanReturns ==
    /\ planned # None
    /\ planned' = None
    /\ UNCHANGED <<coreVars, cliVars, promptVars, searchVars, submissionVars, ruleVars, bundleVars>>

NextParse ==
    \/ ParsePlan
    \/ ParsePlanReturns

SpecParse == Init /\ [][NextParse]_vars

\* the number of braces left open after the first n tokens
RECURSIVE Depth(_, _)
Depth(text, n) ==
    IF n = 0 THEN 0
    ELSE Depth(text, n - 1)
            + (IF text[n] = "{" THEN 1 ELSE IF text[n] = "}" THEN -1 ELSE 0)

\* the first {...} object of a text: from its first opening brace to the
\* brace that closes it
FirstObject(text) ==
    IF ~IsSome(find(text, "{")) THEN None
    ELSE LET start == Unwrap(find(text, "{"))
             Closes(i) == i > start /\ text[i] = "}" /\ Depth(text, i) = Depth(text, start - 1)
         IN  IF \E i \in DOMAIN text : Closes(i)
             THEN Some(SubSeq(text, start,
                              CHOOSE i \in DOMAIN text :
                                  Closes(i) /\ \A j \in start .. i - 1 : ~Closes(j)))
             ELSE None

\* C25: parse_plan decodes the first {...} JSON object of the response,
\* whatever prose stands before it and after it, braces in the trailing prose
\* included; when no ActionPlan can be decoded the result is InvalidResponse.
C25_FirstObjectDecoded ==
    IsSome(planned) =>
        Unwrap(planned).result =
            IF IsSome(FirstObject(Unwrap(planned).content))
            THEN from_str(Unwrap(FirstObject(Unwrap(planned).content)))
            ELSE InvalidResponse

----------------------------------------------------------------------------
(***************************************************************************)
(* Classifying submissions: every submission a channel delivers is asked   *)
(* whether it starts a turn and whether it is a control command.           *)
(***************************************************************************)
ReceiveSubmission ==
    /\ Len(classified) < MaxClassified
    /\ \E sub \in Submissions : classified' = Append(classified, Classification(sub))
    /\ UNCHANGED <<coreVars, cliVars, promptVars, searchVars, parseVars, ruleVars, bundleVars>>

NextSubmission == ReceiveSubmission

SpecSubmission == Init /\ [][NextSubmission]_vars

\* C26: starts_turn is true exactly for UserInput; is_control is true exactly
\* for Interrupt, Compact, Undo, Redo, Clear and NewThread; no submission is
\* both, and ExecApproval, Resume and SwitchThread are neither.
C26_SubmissionClasses ==
    \A i \in DOMAIN classified :
        LET type == classified[i].sub.type
        IN  /\ classified[i].starts_turn <=> type = "UserInput"
            /\ classified[i].is_control <=>
                  \/ type = "Interrupt" \/ type = "Compact" \/ type = "Undo"
                  \/ type = "Redo" \/ type = "Clear" \/ type = "NewThread"
            /\ ~(classified[i].starts_turn /\ classified[i].is_control)
            /\ (type = "ExecApproval" \/ type = "Resume" \/ type = "SwitchThread")
                  => ~classified[i].starts_turn /\ ~classified[i].is_control

\* a Resume, which is neither, is received after an Undo, which is a control
\* command
C26_Witness ==
    /\ Len(classified) = 2
    /\ classified[1].sub.type = "Undo"
    /\ classified[1].is_control
    /\ ~classified[1].starts_turn
    /\ classified[2].sub.type = "Resume"
    /\ ~classified[2].is_control
    /\ ~classified[2].starts_turn

----------------------------------------------------------------------------
(***************************************************************************)
(* RuleHook::execute: one execution at a time is followed from the hook    *)
(* and the event's content to the outcome.                                 *)
(***************************************************************************)
\* a rule hook compiled from a configuration executes on an inbound event
RuleExecute ==
    /\ executed = None
    /\ \E config \in RuleExecConfigs, content \in RuleContents :
          LET hook == RuleHookFromConfig("workspace", config).hook
          IN  executed' =
                  Some([hook |-> hook, content |-> content,
                        outcome |-> RuleHookExecute(
                                        hook, extract_primary_content(InboundEvent(content)))])
    /\ UNCHANGED <<coreVars, cliVars, promptVars, searchVars, parseVars, submissionVars, bundleVars>>

\* the registry takes the outcome
RuleExecuteReturns ==
    /\ executed # None
    /\ executed' = None
    /\ UNCHANGED <<coreVars, cliVars, promptVars, searchVars, parseVars, submissionVars, bundleVars>>

NextRule ==
    \/ RuleExecute
    \/ RuleExecuteReturns

SpecRule == Init /\ [][NextRule]_vars

\* the content after the first k replacements of a list, every match of
\* each replaced
RECURSIVE ReplacedUpTo(_, _, _)
ReplacedUpTo(replacements, k, content) ==
    IF k = 0 THEN content
    ELSE ReplaceAll(ReplacedUpTo(replacements, k - 1, content),
                    replacements[k].pattern, replacements[k].replacement)

\* the content a rule hook makes of a content: replacements, then the
\* prefix in front, then the suffix behind
Rewritten(hook, content) ==
    UnwrapOr(hook.prepend, <<>>)
        \o ReplacedUpTo(hook.replacements, Len(hook.replacements), content)
        \o UnwrapOr(hook.append, <<>>)

\* C27: a rule hook whose guard is absent or matches and that has no
\* reject_reason returns Continue with the content after the replacements in
\* listed order, then prepend, then append; it returns Continue without a
\* modification exactly when that content equals the original.
C27_RuleRewritesContent ==
    (/\ IsSome(executed)
     /\ ~IsSome(Unwrap(executed).hook.reject_reason)
     /\ IsSome(Unwrap(executed).hook.when_regex)
           => IsMatch(Unwrap(Unwrap(executed).hook.when_regex), Unwrap(executed).content))
    => LET hook == Unwrap(executed).hook
           content == Unwrap(executed).content
           outcome == Unwrap(executed).outcome
       IN  /\ outcome.kind = "Continue"
           /\ outcome.modified = None <=> Rewritten(hook, content) = content
           /\ outcome.modified # None => outcome.modified = Some(Rewritten(hook, content))

\* a guarded hook replaced a by b and then b by nothing, and put a prefix and
\* a suffix around what was left of "ab"
C27_Witness ==
    /\ IsSome(executed)
    /\ Unwrap(executed).hook.when_regex = Some(<<"a">>)
    /\ Unwrap(executed).hook.reject_reason = None
    /\ Unwrap(executed).hook.replacements =
          <<Replacement(<<"a">>, <<"b">>), Replacement(<<"b">>, <<>>)>>
    /\ Unwrap(executed).content = <<"a", "b">>
    /\ Unwrap(executed).outcome = Continue(Some(<<"x", "y">>))

----------------------------------------------------------------------------
(***************************************************************************)
(* register_bundle on bundles that mix entries from_config accepts with    *)
(* entries it refuses: one call at a time, on a registry of its own, is    *)
(* followed from the bundle to the summary.                                *)
(***************************************************************************)
MixedBundles ==
    {Bundle(rules, webhooks) :
        rules \in SeqsOf(RuleConfigs \cup InvalidRuleConfigs, MaxHooks),
        webhooks \in SeqsOf(WebhookConfigs \cup InvalidWebhookConfigs, MaxHooks)}

RegisterMixedBundle ==
    /\ registration = None
    /\ \E bundle \in MixedBundles :
          LET st == register_bundle(
                        RegState([p \in ALL_HOOK_POINTS |-> <<>>], 0, Summary(0, 0, 0)),
                        "workspace", bundle)
          IN  registration' =
                  Some([bundle |-> bundle, registry |-> st.registry, summary |-> st.summary])
    /\ UNCHANGED <<coreVars, cliVars, promptVars, searchVars, parseVars, submissionVars, ruleVars>>

\* the caller takes the summary
RegisterMixedBundleReturns ==
    /\ registration # None
    /\ registration' = None
    /\ UNCHANGED <<coreVars, cliVars, promptVars, searchVars, parseVars, submissionVars, ruleVars>>

NextBundle ==
    \/ RegisterMixedBundle
    \/ RegisterMixedBundleReturns

SpecBundle == Init /\ [][NextBundle]_vars

\* a rule entry is valid: it names a hook point, its regexes compile and its
\* timeout is in range
ValidRule(config) ==
    /\ config.points # {}
    /\ config.timeout_ms # None =>
          Unwrap(config.timeout_ms) >= 1 /\ Unwrap(config.timeout_ms) <= 30000
    /\ config.when_regex # None => RegexCompiles(Unwrap(config.when_regex))
    /\ \A i \in DOMAIN config.replacements : RegexCompiles(config.replacements[i].pattern)

\* a webhook entry is valid: it names a hook point, its URL parses and its
\* timeout is in range
ValidWebhook(config) ==
    /\ config.points # {}
    /\ UrlParses(config.url)
    /\ config.timeout_ms # None =>
          Unwrap(config.timeout_ms) >= 1 /\ Unwrap(config.timeout_ms) <= 30000

----------------------------------------------------------------------------
(* Guarded rejections and outbound webhooks in a chain run *)

\* C28: a rule hook with a when_regex guard and a reject_reason, run by the
\* registry on content the guard matches, ends the run with
\* HookError::Rejected carrying exactly that reason; on content the guard
\* does not match it is a no-op: Continue without a modification, and the
\* content goes on unchanged.
C28_GuardedReject ==
    \A i \in 1..Len(run.log) :
        LET hook == run.snapshot[i].hook
            entry == run.log[i]
        IN  (hook.kind = "rule" /\ hook.when_regex # None /\ hook.reject_reason # None) =>
                IF IsMatch(Unwrap(hook.when_regex), entry.input)
                THEN /\ i = Len(run.log)
                     /\ run.status = "done"
                     /\ run.result = RunResult("Rejected", None,
                                               Unwrap(hook.reject_reason), <<>>)
                ELSE /\ entry.outcome = Continue(None)
                     /\ i < Len(run.log) => run.log[i + 1].input = entry.input
                     /\ i = Len(run.log) =>
                           /\ run.content = entry.input
                           /\ run.result.kind \in {"none", "Continue"}

\* the guarded hook "block" was the first hook of the chain and rejected the
\* inbound content "xb", which its guard matches
C28_Witness ==
    /\ run.status = "done"
    /\ Len(run.log) = 1
    /\ run.snapshot[1].hook.name = ScopedName("workspace", "block")
    /\ run.snapshot[1].hook.when_regex = Some(<<"x">>)
    /\ run.log[1].input = <<"x", "b">>
    /\ run.result.kind = "Rejected"
    /\ run.result.reason = "forbidden content"

\* a step of the chain run
RunStep == RunHook \/ RunReturn

\* C30: an outbound webhook hook returns Continue without a modification and
\* without waiting for its delivery: the hooks after it run on the same
\* content while the POST is outstanding, a running chain can always take its
\* next step whatever deliveries are outstanding, and the end of a delivery
\* (sent, or failed and logged) changes nothing of the run.
C30_WebhookNeverBlocksChain ==
    /\ [](/\ \A i \in 1..Len(run.log) :
                run.snapshot[i].hook.kind = "webhook" =>
                    /\ run.log[i].outcome = Continue(None)
                    /\ i < Len(run.log) => run.log[i + 1].input = run.log[i].input
                    /\ i = Len(run.log) =>
                          /\ run.content = run.log[i].input
                          /\ run.result.kind \in {"none", "Continue"}
          /\ run.status = "running" => ENABLED RunStep)
    /\ [][Len(webhookTasks') < Len(webhookTasks) => run' = run]_vars

\* a run returned Continue after a hook executed behind the webhook hook,
\* while the webhook's delivery was still outstanding
C30_Witness ==
    /\ run.status = "done"
    /\ run.result.kind = "Continue"
    /\ webhookTasks # <<>>
    /\ \E i \in 1..(Len(run.log) - 1) :
          /\ run.snapshot[i].hook.kind = "webhook"
          /\ run.snapshot[i + 1].hook.kind = "rule"

----------------------------------------------------------------------------
(* Undo and UserInput after an interrupted turn *)

\* C31 as stated: after a turn is interrupted, a subsequent Undo is a no-op
\* (nothing is popped and the message list is unchanged), and a subsequent
\* UserInput starts a fresh turn whose parent checkpoint is the one that
\* preceded the interrupted turn (the same message list).
C31_UndoAfterInterruptIsNoOp ==
    [][/\ (latest = TurnInterrupted /\ Undo) =>
              UNCHANGED <<messages, undoStack, redoStack>>
       /\ (latest = TurnInterrupted /\ UserInputStartsTurn) =>
              /\ turn'.id # turn.id
              /\ turn'.checkpoint.messages = turn.checkpoint.messages]_vars

\* C31, amended: after a turn is interrupted, a subsequent Undo leaves the
\* interrupted turn alone; with no completed turn in the thread it is a
\* no-op, otherwise it pops the last completed turn.  A subsequent UserInput
\* starts a fresh turn on a snapshot of the thread as the interrupt left it:
\* its message list is the one of the checkpoint that preceded the
\* interrupted turn, or the summary the history was compacted to meanwhile.
C31_UndoSkipsInterruptedTurn ==
    [][/\ (latest = TurnInterrupted /\ Undo) =>
              /\ turn' = turn
              /\ undoStack = <<>> => UNCHANGED <<messages, undoStack, redoStack>>
              /\ undoStack # <<>> =>
                    /\ Top(undoStack).state = "Completed"
                    /\ Top(undoStack).id # turn.id
                    /\ Top(redoStack').turn = Top(undoStack)
                    /\ messages' = Top(undoStack).checkpoint.messages
       /\ (latest = TurnInterrupted /\ UserInputStartsTurn) =>
              /\ turn'.id > turn.id
              /\ turn'.checkpoint.messages = messages
              /\ \/ turn'.checkpoint.messages = turn.checkpoint.messages
                 \/ turn'.checkpoint.messages = <<SummaryMessage>>]_vars

\* the second turn of a thread has just been interrupted: the first,
\* completed turn is the one an Undo pops, and a UserInput starts a turn on
\* the interrupted turn's checkpoint
C31_Witness ==
    /\ latest = TurnInterrupted
    /\ turn.state = "Interrupted"
    /\ loopState = "Idle"
    /\ Len(undoStack) = 1
    /\ undoStack[1].id # turn.id
    /\ messages = turn.checkpoint.messages
    /\ messages # <<>>
    /\ ENABLED Undo
    /\ ENABLED UserInputStartsTurn

----------------------------------------------------------------------------
(***************************************************************************)
(* Timeouts of bundle entries: register_bundle on bundles of at most one   *)
(* rule and one outbound webhook that differ in timeout_ms only.           *)
(***************************************************************************)
\* timeout_ms omitted, at and next to the limits, and in between
TimeoutInputs ==
    {None} \cup {Some(ms) : ms \in {0, 1, 2, 1000, 2000, 5000, 29999, 30000, 30001, 60000}}

TimedRules ==
    {RuleConfig("timed", {"beforeInbound"}, None, None, timeout_ms,
                None, None, <<>>, None, None) : timeout_ms \in TimeoutInputs}

TimedWebhooks ==
    {WebhookConfig("timedpost", {"beforeInbound"}, "http://127.0.0.1:9/hook",
                   timeout_ms, None) : timeout_ms \in TimeoutInputs}

TimedBundles ==
    {Bundle(rules, webhooks) :
        rules \in {<<>>} \cup {<<config>> : config \in TimedRules},
        webhooks \in {<<>>} \cup {<<config>> : config \in TimedWebhooks}}

RegisterTimedBundle ==
    /\ registration = None
    /\ \E bundle \in TimedBundles :
          LET st == register_bundle(
                        RegState([p \in ALL_HOOK_POINTS |-> <<>>], 0, Summary(0, 0, 0)),
                        "workspace", bundle)
          IN  registration' =
                  Some([bundle |-> bundle, registry |-> st.registry, summary |-> st.summary])
    /\ UNCHANGED <<coreVars, cliVars, promptVars, searchVars, parseVars, submissionVars, ruleVars>>

NextTimeout ==
    \/ RegisterTimedBundle
    \/ RegisterMixedBundleReturns

SpecTimeout == Init /\ [][NextTimeout]_vars

\* the hooks of a registry that carry the name
HooksNamed(reg, name) ==
    {hook \in UNION {{reg[p][i].hook : i \in DOMAIN reg[p]} : p \in ALL_HOOK_POINTS} :
        hook.name = name}

\* the timeout is one from_config accepts
TimeoutAccepted(timeout_ms) ==
    timeout_ms = None \/ (1 <= Unwrap(timeout_ms) /\ Unwrap(timeout_ms) <= 30000)

\* C32: an entry's timeout_ms is accepted if and only if it is omitted or
\* 1 <= timeout_ms <= 30000 (0 and 30001 are refused with InvalidTimeout, 1
\* and 30000 are accepted); the registered hook has the timeout given, a rule
\* hook 5 s and a webhook hook 2000 ms when it is omitted.
C32_TimeoutRange ==
    IsSome(registration) =>
        LET bundle == Unwrap(registration).bundle
            reg == Unwrap(registration).registry
        IN  /\ \A i \in DOMAIN bundle.rules :
                  LET timeout_ms == bundle.rules[i].timeout_ms
                      hooks == HooksNamed(reg, ScopedName("workspace", bundle.rules[i].name))
                  IN  /\ hooks # {} <=> TimeoutAccepted(timeout_ms)
                      /\ hooks = {} =>
                            RuleHookFromConfig("workspace", bundle.rules[i]).err
                                = "InvalidTimeout"
                      /\ \A hook \in hooks :
                            hook.timeout = IF timeout_ms = None THEN 5 * 1000
                                           ELSE Unwrap(timeout_ms)
            /\ \A i \in DOMAIN bundle.outbound_webhooks :
                  LET timeout_ms == bundle.outbound_webhooks[i].timeout_ms
                      hooks == HooksNamed(reg, ScopedName("workspace",
                                                          bundle.outbound_webhooks[i].name))
                  IN  /\ hooks # {} <=> TimeoutAccepted(timeout_ms)
                      /\ hooks = {} =>
                            WebhookHookFromConfig("workspace", bundle.outbound_webhooks[i]).err
                                = "InvalidTimeout"
                      /\ \A hook \in hooks :
                            hook.timeout = IF timeout_ms = None THEN 2000
                                           ELSE Unwrap(timeout_ms)

\* a rule with timeout_ms 30001 was refused next to a webhook without
\* timeout_ms, which was registered with 2000 ms
C32_Witness ==
    /\ IsSome(registration)
    /\ Len(Unwrap(registration).bundle.rules) = 1
    /\ Unwrap(registration).bundle.rules[1].timeout_ms = Some(30001)
    /\ Len(Unwrap(registration).bundle.outbound_webhooks) = 1
    /\ Unwrap(registration).bundle.outbound_webhooks[1].timeout_ms = None
    /\ Unwrap(registration).summary = Summary(0, 1, 1)
    /\ \E hook \in HooksNamed(Unwrap(registration).registry,
                              ScopedName("workspace", "timedpost")) : hook.timeout = 2000

----------------------------------------------------------------------------
(* system_prompt under failing reads, and what it leaves in the store *)

\* C33: system_prompt never returns an error: whichever reads fail, it
\* returns Ok with the failing documents left out (a document's part is in
\* the prompt exactly when its read succeeded and it has content), and Ok
\* with the empty string when every read fails.
C33_PromptNeverFails ==
    IsSome(prompt) =>
        /\ Unwrap(prompt).ok
        /\ \A source \in PromptSourceSet :
              Header(source) \in Range(Unwrap(prompt).result)
                  <=> /\ source \notin Unwrap(prompt).failed
                      /\ Content(promptDocs[source]) # <<>>
        /\ Unwrap(prompt).failed = PromptSourceSet => Unwrap(prompt).result = <<>>

\* the reads of AGENTS and of today's log failed although both have content;
\* the prompt is SOUL's part alone
C33_Witness ==
    /\ IsSome(prompt)
    /\ Unwrap(prompt).failed = {"Agents", "today"}
    /\ promptDocs["Agents"] = Some(<<"a">>)
    /\ promptDocs["today"] = Some(<<"a">>)
    /\ Unwrap(prompt).ok
    /\ Unwrap(prompt).result = <<"## Core Values", "\n\n", "a">>

\* C36: system_prompt only reads the workspace: a call leaves the set of
\* stored documents and the content of every document unchanged, also when
\* today's or yesterday's daily log does not exist yet.
C36_PromptOnlyReads ==
    [][SystemPrompt => promptDocs' = promptDocs]_vars

Contains(content, entry) ==
    \E i \in 1..(Len(content) - Len(entry) + 1) :
        SubSeq(content, i, i + Len(entry) - 1) = entry

\* C35: when two append_memory calls on the memory document have both
\* returned Ok, however their steps interleaved, and nothing else wrote the
\* document, its content contains both entries.
C35_BothAppendsKept ==
    \A first, second \in returned :
        (/\ first.id # second.id
         /\ first.kind = "append_memory" /\ first.ok
         /\ second.kind = "append_memory" /\ second.ok
         /\ \A other \in writes \cup returned :
                other.doc = "memory" => other.kind = "append_memory")
        => /\ Contains(Content(documents["memory"]), first.entry)
           /\ Contains(Content(documents["memory"]), second.entry)

\* C37: a rule hook that has a reject_reason never returns a modification:
\* when its guard is absent or matches the content it rejects with that
\* reason, whatever replacements, prepend or append it also has, and
\* without a guard it rejects every event.
C37_RejectReasonWins ==
    (IsSome(executed) /\ Unwrap(executed).hook.reject_reason # None) =>
        LET hook == Unwrap(executed).hook
            content == Unwrap(executed).content
            outcome == Unwrap(executed).outcome
        IN  /\ outcome.modified = None
            /\ (hook.when_regex = None \/ IsMatch(Unwrap(hook.when_regex), content))
                  => outcome = Reject(Unwrap(hook.reject_reason))
            /\ hook.when_regex = None => outcome.kind = "Reject"

\* an unguarded hook with a reject_reason, two replacements, a prefix and a
\* suffix rejected "ab"
C37_Witness ==
    /\ IsSome(executed)
    /\ Unwrap(executed).hook.when_regex = None
    /\ Unwrap(executed).hook.reject_reason = Some("forbidden content")
    /\ Len(Unwrap(executed).hook.replacements) = 2
    /\ Unwrap(executed).hook.prepend = Some(<<"x">>)
    /\ Unwrap(executed).hook.append = Some(<<"y">>)
    /\ Unwrap(executed).content = <<"a", "b">>
    /\ Unwrap(executed).outcome = Reject("forbidden content")

\* C38 as stated: a failing list_tools call (transport error, non-success
\* HTTP status, JSON-RPC error, missing or undecodable result) leaves the
\* tools cache unchanged and empty, so the next list_tools call sends a new
\* request.
C38_FailureLeavesCacheEmpty ==
    [][ListToolsFails =>
          /\ tools_cache' = tools_cache
          /\ tools_cache' = None]_vars

\* C38, amended: a failing list_tools call leaves the tools cache unchanged,
\* and empty unless another list_tools call stored its list while the failing
\* one was under way; while the cache is empty the next list_tools call
\* sends a new request.
C38_FailureLeavesCacheUnchanged ==
    [][ListToolsFails =>
          /\ tools_cache' = tools_cache
          /\ \A call \in list_calls \ list_calls' :
                 ~call.overwritten => tools_cache' = None
          /\ (tools_cache' = None /\ next_id' <= MaxRequests) =>
                 \A wrap \in BOOLEAN :
                     /\ ~ENABLED ListToolsCached(wrap)
                     /\ ENABLED ListToolsRequest(wrap)]_vars

\* a list_tools call has failed on a client whose cache is empty, and a
\* request id is left for the next call
C38_Witness ==
    /\ lastReturn = ListReturn(FALSE, <<>>, TRUE, None, FALSE)
    /\ tools_cache = None
    /\ list_calls = {}
    /\ next_id = 2

----------------------------------------------------------------------------
(***************************************************************************)
(* The approval overlay: the user moves the selection, presses shortcut    *)
(* keys and confirms; the Submission constructors build the ExecApproval.  *)
(***************************************************************************)
SelectNext ==
    /\ overlay' = [overlay EXCEPT !.selection = ApprovalSelection_next(@)]
    /\ UNCHANGED <<nonCliVars, composerVars>>

SelectPrev ==
    /\ overlay' = [overlay EXCEPT !.selection = ApprovalSelection_prev(@)]
    /\ UNCHANGED <<nonCliVars, composerVars>>

HandleShortcut ==
    \E c \in ShortcutKeys :
        /\ overlay' = [overlay EXCEPT !.selection = handle_shortcut(overlay.selection, c).selection,
                                      !.shortcut = Some(handle_shortcut(overlay.selection, c).returned)]
        /\ UNCHANGED <<nonCliVars, composerVars>>

Confirm ==
    /\ overlay' = [overlay EXCEPT !.answer = Some(confirm(overlay.selection))]
    /\ UNCHANGED <<nonCliVars, composerVars>>

\* Submission::approval is called
BuildApproval ==
    \E request_id \in ApprovalRequestIds, approved \in BOOLEAN :
        /\ overlay' = [overlay EXCEPT !.built = Some([constructor |-> "approval",
                                                      approved |-> approved,
                                                      sub |-> approval(request_id, approved)])]
        /\ UNCHANGED <<nonCliVars, composerVars>>

\* Submission::always_approve is called
BuildAlwaysApprove ==
    \E request_id \in ApprovalRequestIds :
        /\ overlay' = [overlay EXCEPT !.built = Some([constructor |-> "always_approve",
                                                      approved |-> TRUE,
                                                      sub |-> always_approve(request_id)])]
        /\ UNCHANGED <<nonCliVars, composerVars>>

NextOverlay ==
    \/ SelectNext
    \/ SelectPrev
    \/ HandleShortcut
    \/ Confirm
    \/ BuildApproval
    \/ BuildAlwaysApprove

SpecOverlay == Init /\ [][NextOverlay]_vars

\* C39: an approval decision sets always = true only together with
\* approved = true: after any sequence of select_next, select_prev and
\* handle_shortcut, confirm never returns (false, true); Submission::approval
\* sets always = false and Submission::always_approve sets approved = true.
C39_AlwaysOnlyWithApproved ==
    /\ IsSome(overlay.answer) =>
           /\ Unwrap(overlay.answer) # <<FALSE, TRUE>>
           /\ Unwrap(overlay.answer)[2] => Unwrap(overlay.answer)[1]
    /\ IsSome(overlay.built) =>
           LET built == Unwrap(overlay.built)
           IN  /\ built.constructor = "approval" => ~built.sub.always
               /\ built.constructor = "always_approve" => built.sub.approved
               /\ built.sub.always => built.sub.approved

\* the shortcut A put the selection on Always, the selection was moved on to
\* No with two select_next, and confirm answered (false, false); an always-
\* approve Submission was built
C39_Witness ==
    /\ overlay.shortcut = Some(Some(TRUE))
    /\ overlay.selection = "No"
    /\ overlay.answer = Some(<<FALSE, FALSE>>)
    /\ IsSome(overlay.built)
    /\ Unwrap(overlay.built).sub = Submission("ExecApproval", 2, TRUE, TRUE)

----------------------------------------------------------------------------
(***************************************************************************)
(* The chat composer (src/channels/cli/composer.rs).  The buffer is a      *)
(* String: a sequence of bytes, the cursor a byte offset into it.  A call  *)
(* is followed from a composer the user can have brought about to the      *)
(* composer it leaves.                                                     *)
(***************************************************************************)
MAX_HISTORY == 100

\* "é" takes two bytes in UTF-8, the other characters one
Utf8(c) == IF c = "é" THEN <<"C3", "A9">> ELSE <<c>>

len_utf8(c) == Len(Utf8(c))

Str(chars) ==
    LET RECURSIVE Bytes(_)
        Bytes(i) == IF i > Len(chars) THEN <<>> ELSE Utf8(chars[i]) \o Bytes(i + 1)
    IN  Bytes(1)

SLASH_COMMANDS ==
    <<Str(<<"/", "h", "e", "l", "p">>), Str(<<"/", "j", "o", "b">>),
      Str(<<"/", "s", "t", "a", "t", "u", "s">>), Str(<<"/", "c", "a", "n", "c", "e", "l">>),
      Str(<<"/", "l", "i", "s", "t">>), Str(<<"/", "t", "o", "o", "l", "s">>),
      Str(<<"/", "c", "l", "e", "a", "r">>), Str(<<"/", "q", "u", "i", "t">>)>>

\* str::is_char_boundary: offset 0, the end, or the first byte of a character
IsCharBoundary(buffer, offset) ==
    \/ offset = 0
    \/ offset = Len(buffer)
    \/ offset \in 1..(Len(buffer) - 1) /\ buffer[offset + 1] # "A9"

\* buffer[..cursor].char_indices().next_back(): where the character before
\* the cursor starts
PrevBoundary(buffer, cursor) ==
    CHOOSE i \in 0..(cursor - 1) :
        /\ IsCharBoundary(buffer, i)
        /\ \A j \in (i + 1)..(cursor - 1) : ~IsCharBoundary(buffer, j)

\* buffer[cursor..].char_indices().nth(1): where the character after the one
\* at the cursor starts, the end of the buffer when there is none
NextBoundary(buffer, cursor) ==
    CHOOSE i \in (cursor + 1)..Len(buffer) :
        /\ IsCharBoundary(buffer, i)
        /\ \A j \in (cursor + 1)..(i - 1) : ~IsCharBoundary(buffer, j)

starts_with(s, prefix) == Len(prefix) <= Len(s) /\ SubSeq(s, 1, Len(prefix)) = prefix

Composer(buffer, cursor, history, history_index, saved_input, completions, completion_index) ==
    [buffer |-> buffer, cursor |-> cursor, history |-> history,
     history_index |-> history_index, saved_input |-> saved_input,
     completions |-> completions, completion_index |-> completion_index]

clear_completion(c) == [c EXCEPT !.completions = <<>>, !.completion_index = None]

\* String::insert_str at a byte offset
InsertAt(buffer, offset, bytes) ==
    SubSeq(buffer, 1, offset) \o bytes \o SubSeq(buffer, offset + 1, Len(buffer))

\* String::drain(from..to)
Drain(buffer, from, to) == SubSeq(buffer, 1, from) \o SubSeq(buffer, to + 1, Len(buffer))

insert(c, ch) ==
    [clear_completion(c) EXCEPT !.buffer = InsertAt(c.buffer, c.cursor, Utf8(ch)),
                                !.cursor = c.cursor + len_utf8(ch)]

insert_str(c, s) ==
    [clear_completion(c) EXCEPT !.buffer = InsertAt(c.buffer, c.cursor, s),
                                !.cursor = c.cursor + Len(s)]

backspace(c) ==
    IF c.cursor > 0
    THEN [clear_completion(c) EXCEPT
             !.buffer = Drain(c.buffer, PrevBoundary(c.buffer, c.cursor), c.cursor),
             !.cursor = PrevBoundary(c.buffer, c.cursor)]
    ELSE clear_completion(c)

delete(c) ==
    IF c.cursor < Len(c.buffer)
    THEN [clear_completion(c) EXCEPT
             !.buffer = Drain(c.buffer, c.cursor, NextBoundary(c.buffer, c.cursor))]
    ELSE clear_completion(c)

move_left(c) ==
    IF c.cursor > 0 THEN [c EXCEPT !.cursor = PrevBoundary(c.buffer, c.cursor)] ELSE c

\* move_right stepping one byte whatever the character
move_right_OneByte(c) == [c EXCEPT !.cursor = c.cursor + 1]

move_right(c) ==
    IF c.cursor < Len(c.buffer)
    THEN [c EXCEPT !.cursor = NextBoundary(c.buffer, c.cursor)]
    ELSE c

move_home(c) == [c EXCEPT !.cursor = 0]

move_end(c) == [c EXCEPT !.cursor = Len(c.buffer)]

kill_line(c) == [clear_completion(c) EXCEPT !.buffer = SubSeq(c.buffer, 1, c.cursor)]

kill_to_start(c) ==
    [clear_completion(c) EXCEPT !.buffer = Drain(c.buffer, 0, c.cursor), !.cursor = 0]

ChatComposer_clear(c) == [clear_completion(c) EXCEPT !.buffer = <<>>, !.cursor = 0]

\* submit without the pop_back
submit_Uncapped(c) ==
    [clear_completion(c) EXCEPT
        !.buffer = <<>>,
        !.cursor = 0,
        !.history = IF c.buffer # <<>> /\ (c.history = <<>> \/ Head(c.history) # c.buffer)
                    THEN <<c.buffer>> \o c.history
                    ELSE c.history,
        !.history_index = None,
        !.saved_input = <<>>]

\* submit: the composer it leaves (the input returned is the buffer it took);
\* history[1] is the front of the VecDeque
submit(c) ==
    [clear_completion(c) EXCEPT
        !.buffer = <<>>,
        !.cursor = 0,
        !.history = IF c.buffer # <<>> /\ (c.history = <<>> \/ Head(c.history) # c.buffer)
                    THEN IF Len(c.history) + 1 > MAX_HISTORY
                         THEN SubSeq(<<c.buffer>> \o c.history, 1, Len(c.history))
                         ELSE <<c.buffer>> \o c.history
                    ELSE c.history,
        !.history_index = None,
        !.saved_input = <<>>]

\* history_prev that does not save the input it leaves
history_prev_DropsInput(c) ==
    IF c.history = <<>> THEN c
    ELSE LET moved ==
                 IF c.history_index = None
                 THEN [c EXCEPT !.saved_input = <<>>,
                                !.history_index = Some(0),
                                !.buffer = c.history[1]]
                 ELSE IF Unwrap(c.history_index) + 1 < Len(c.history)
                 THEN [c EXCEPT !.history_index = Some(Unwrap(c.history_index) + 1),
                                !.buffer = c.history[Unwrap(c.history_index) + 2]]
                 ELSE c
         IN  clear_completion([moved EXCEPT !.cursor = Len(moved.buffer)])

history_prev(c) ==
    IF c.history = <<>> THEN c
    ELSE LET moved ==
                 IF c.history_index = None
                 THEN [c EXCEPT !.saved_input = c.buffer,
                                !.history_index = Some(0),
                                !.buffer = c.history[1]]
                 ELSE IF Unwrap(c.history_index) + 1 < Len(c.history)
                 THEN [c EXCEPT !.history_index = Some(Unwrap(c.history_index) + 1),
                                !.buffer = c.history[Unwrap(c.history_index) + 2]]
                 ELSE c
         IN  clear_completion([moved EXCEPT !.cursor = Len(moved.buffer)])

history_next(c) ==
    LET moved ==
            IF c.history_index = Some(0)
            THEN [c EXCEPT !.history_index = None,
                           !.buffer = c.saved_input,
                           !.saved_input = <<>>]
            ELSE IF c.history_index # None
            THEN [c EXCEPT !.history_index = Some(Unwrap(c.history_index) - 1),
                           !.buffer = c.history[Unwrap(c.history_index)]]
            ELSE c
    IN  clear_completion([moved EXCEPT !.cursor = Len(moved.buffer)])

\* SLASH_COMMANDS filtered by the prefix, in order
Matching(prefix) == SelectSeq(SLASH_COMMANDS, LAMBDA cmd : starts_with(cmd, prefix))

complete(c) ==
    IF ~starts_with(c.buffer, <<"/">>) THEN c
    ELSE LET cycled ==
                 IF c.completions = <<>>
                 THEN [c EXCEPT !.completions = Matching(c.buffer),
                                !.completion_index =
                                    IF Matching(c.buffer) # <<>> THEN Some(0) ELSE None]
                 ELSE IF c.completion_index # None
                 THEN [c EXCEPT !.completion_index =
                                    Some((Unwrap(c.completion_index) + 1) % Len(c.completions))]
                 ELSE c
         IN  IF /\ cycled.completion_index # None
                /\ Unwrap(cycled.completion_index) < Len(cycled.completions)
             THEN [cycled EXCEPT
                      !.buffer = cycled.completions[Unwrap(cycled.completion_index) + 1],
                      !.cursor = Len(cycled.completions[Unwrap(cycled.completion_index) + 1])]
             ELSE cycled

\* the characters a user types
ComposerChars == {"/", "h", "é"}

TypedLines == {Str(chars) : chars \in UNION {[1 .. n -> ComposerChars] : n \in 0 .. MaxTyped}}

\* the lines submitted earlier, and the strings pasted with insert_str
HistoryLines == {Str(<<"h">>), Str(<<"é">>), Str(<<"/", "h", "e", "l", "p">>)}

\* the inputs set aside when a navigation began
SavedInputs == {<<>>, Str(<<"h">>), Str(<<"/", "é">>)}

\* two lines submitted in turn, the first of them last
Alternating(first, second, n) == [i \in 1 .. n |-> IF i % 2 = 1 THEN first ELSE second]

\* submit skips a line equal to the front of the history, so neighbours
\* differ; the two long histories are one short of full, and full
ComposerHistories ==
    {h \in UNION {[1 .. n -> HistoryLines] : n \in 0 .. MaxEntries} :
        \A i \in 1 .. (Len(h) - 1) : h[i] # h[i + 1]}
    \cup {Alternating(Str(<<"h">>), Str(<<"é">>), n) : n \in {MAX_HISTORY - 1, MAX_HISTORY}}

\* where a navigation can stand in a history: nowhere (history_index None,
\* saved_input empty), or at either end or next to one, with an input set aside
Navigations(history) ==
    {[history_index |-> None, saved_input |-> <<>>]}
    \cup {[history_index |-> Some(i), saved_input |-> saved] :
             i \in {0, 1, Len(history) - 2, Len(history) - 1} \cap (0 .. (Len(history) - 1)),
             saved \in SavedInputs}

\* what the buffer holds: a typed or recalled line with no completion under
\* way, or the candidate a completion shows
Texts ==
    {[buffer |-> buffer, completions |-> <<>>, completion_index |-> None] :
        buffer \in TypedLines \cup HistoryLines}
    \cup UNION {{[buffer |-> Matching(prefix)[i + 1], completions |-> Matching(prefix),
                  completion_index |-> Some(i)] : i \in 0 .. (Len(Matching(prefix)) - 1)} :
                prefix \in {typed \in TypedLines : starts_with(typed, <<"/">>)}}

Boundaries(buffer) == {offset \in 0 .. Len(buffer) : IsCharBoundary(buffer, offset)}

RECURSIVE PrevTimes(_, _)
PrevTimes(c, k) == IF k = 0 THEN c ELSE history_prev(PrevTimes(c, k - 1))

RECURSIVE NextTimes(_, _)
NextTimes(c, k) == IF k = 0 THEN c ELSE history_next(NextTimes(c, k - 1))

\* a call: the operation, the composer before and after; for a navigation
\* the number of presses each way and the buffers history_prev showed
Call(op, before, after) ==
    [op |-> op, before |-> before, after |-> after, presses |-> 0, shown |-> <<>>]

Navigation(before, k) ==
    [op |-> "navigate", before |-> before, after |-> NextTimes(PrevTimes(before, k), k),
     presses |-> k, shown |-> [j \in 1 .. k |-> PrevTimes(before, j).buffer]]

Composes(call) ==
    /\ composed' = Some(call)
    /\ UNCHANGED <<nonCliVars, overlayVars>>

\* a call is made on one of the composers the user can have brought about:
\* every combination of text, history and navigation, the cursor on any
\* character boundary
OnComposer(Handles(_)) ==
    /\ composed = None
    /\ \E text \in Texts, history \in ComposerHistories :
           \E navigation \in Navigations(history), cursor \in Boundaries(text.buffer) :
               Handles(Composer(text.buffer, cursor, history, navigation.history_index,
                                navigation.saved_input, text.completions,
                                text.completion_index))

Insert ==
    \E ch \in ComposerChars :
        OnComposer(LAMBDA c : Composes(Call("insert", c, insert(c, ch))))

InsertStr ==
    \E s \in HistoryLines :
        OnComposer(LAMBDA c : Composes(Call("insert_str", c, insert_str(c, s))))

Backspace == OnComposer(LAMBDA c : Composes(Call("backspace", c, backspace(c))))

Delete == OnComposer(LAMBDA c : Composes(Call("delete", c, delete(c))))

MoveLeft == OnComposer(LAMBDA c : Composes(Call("move_left", c, move_left(c))))

MoveRight == OnComposer(LAMBDA c : Composes(Call("move_right", c, move_right(c))))

MoveHome == OnComposer(LAMBDA c : Composes(Call("move_home", c, move_home(c))))

MoveEnd == OnComposer(LAMBDA c : Composes(Call("move_end", c, move_end(c))))

KillLine == OnComposer(LAMBDA c : Composes(Call("kill_line", c, kill_line(c))))

KillToStart == OnComposer(LAMBDA c : Composes(Call("kill_to_start", c, kill_to_start(c))))

ClearBuffer == OnComposer(LAMBDA c : Composes(Call("clear", c, ChatComposer_clear(c))))

Submit == OnComposer(LAMBDA c : Composes(Call("submit", c, submit(c))))

HistoryPrev == OnComposer(LAMBDA c : Composes(Call("history_prev", c, history_prev(c))))

HistoryNext == OnComposer(LAMBDA c : Composes(Call("history_next", c, history_next(c))))

TabComplete == OnComposer(LAMBDA c : Composes(Call("complete", c, complete(c))))

\* from a composer that is not navigating, history_prev is pressed k times
\* and then history_next k times
NavigateHistory ==
    \E k \in 0 .. MaxPresses :
        OnComposer(LAMBDA c : c.history_index = None /\ Composes(Navigation(c, k)))

\* the caller has looked at the composer
ComposerReturns ==
    /\ composed # None
    /\ composed' = None
    /\ UNCHANGED <<nonCliVars, overlayVars>>

NextComposer ==
    \/ Insert
    \/ InsertStr
    \/ Backspace
    \/ Delete
    \/ MoveLeft
    \/ MoveRight
    \/ MoveHome
    \/ MoveEnd
    \/ KillLine
    \/ KillToStart
    \/ ClearBuffer
    \/ Submit
    \/ HistoryPrev
    \/ HistoryNext
    \/ TabComplete
    \/ NavigateHistory
    \/ ComposerReturns

SpecComposer == Init /\ [][NextComposer]_vars

\* C34: from a composer that is not navigating history, k history_prev
\* followed by k history_next leave the buffer as it was and history_index
\* None, and the j-th history_prev, j up to the history's length, shows the
\* j-th most recent entry.
C34_HistoryRoundTrip ==
    (composed # None /\ Unwrap(composed).op = "navigate") =>
        LET call == Unwrap(composed)
        IN  /\ call.after.buffer = call.before.buffer
            /\ call.after.history_index = None
            /\ \A j \in 1 .. Min(call.presses, Len(call.before.history)) :
                   call.shown[j] = call.before.history[j]

\* three presses each way on a history of two entries, from the typed
\* line "/é"
C34_Witness ==
    /\ composed # None
    /\ Unwrap(composed).op = "navigate"
    /\ Unwrap(composed).presses = 3
    /\ Unwrap(composed).before.buffer = Str(<<"/", "é">>)
    /\ Unwrap(composed).before.history = <<Str(<<"h">>), Str(<<"é">>)>>
    /\ Unwrap(composed).shown = <<Str(<<"h">>), Str(<<"é">>), Str(<<"é">>)>>
    /\ Unwrap(composed).after.buffer = Str(<<"/", "é">>)

\* C40: after any ChatComposer operation the cursor is at most the buffer's
\* length, history_index when set is a valid index into the history, and
\* the history has at most 100 entries.
C40_ComposerInvariants ==
    composed # None =>
        LET after == Unwrap(composed).after
        IN  /\ after.cursor <= Len(after.buffer)
            /\ after.history_index # None => Unwrap(after.history_index) < Len(after.history)
            /\ Len(after.history) <= MAX_HISTORY

\* a line was submitted to a full history: it is the front and the history
\* is still full
C40_Witness ==
    /\ composed # None
    /\ Unwrap(composed).op = "submit"
    /\ Len(Unwrap(composed).before.history) = MAX_HISTORY
    /\ Unwrap(composed).before.cursor = 1
    /\ Unwrap(composed).before.history_index = Some(MAX_HISTORY - 1)
    /\ Unwrap(composed).after.history[1] = Str(<<"/", "h">>)
    /\ Len(Unwrap(composed).after.history) = MAX_HISTORY
    /\ Unwrap(composed).after.cursor = 0

====
